---- MODULE Spec2Model ----
\* npx-ray: the scan pipeline of src/cli.ts (scanPackage, main), the scanners'
\* result construction, the GitHub health probe, the source diff engine and the
\* scoring engine of src/scorer.ts.
\*
\* Findings are represented by their number per severity: the scorer only
\* counts findings by severity (scorer.ts:56-66) and every scanner derives
\* `passed` from the same counts.
\*
\* Points are fixed-point numbers: one point is Scale units, and Math.log is
\* the table LnTable (natural logarithm, rounded to 1/Scale).  A JavaScript
\* number is a record [nan, v]: nan is TRUE for NaN, v is the value in units.
EXTENDS Integers, Sequences, FiniteSets, TLC

\* ------------------------------------------------------------------ bounds
\* Total number of findings the scanners of one scan report.
MaxFindings == 2
\* Number of scanners of one scan that report findings.
MaxDirty == 1
\* Largest number of unexpected files a source diff reports.
MaxUnexpected == 2
\* Longest scanner list handed to calculateScore directly.
MaxResults == 4
\* Total number of findings in a scanner list handed to calculateScore directly.
MaxListFindings == 2

\* ------------------------------------------------------------- arithmetic
Scale == 1000000

\* LnTable[n] = round(Scale * ln n), n = 1..16
LnTable ==
  << 0, 693147, 1098612, 1386294, 1609438, 1791759, 1945910, 2079442,
     2197225, 2302585, 2397895, 2484907, 2564949, 2639057, 2708050, 2772589 >>

MathLog(n) == LnTable[n]

Num(v) == [nan |-> FALSE, v |-> v]

NaN == [nan |-> TRUE, v |-> 0]

\* a + b on JavaScript numbers
NumAdd(a, b) == IF a.nan \/ b.nan THEN NaN ELSE Num(a.v + b.v)

\* Math.max / Math.min: NaN if either argument is NaN
MathMax(a, b) == IF a.nan \/ b.nan THEN NaN ELSE Num(IF a.v >= b.v THEN a.v ELSE b.v)

MathMin(a, b) == IF a.nan \/ b.nan THEN NaN ELSE Num(IF a.v <= b.v THEN a.v ELSE b.v)

\* a >= k: every comparison with NaN is false
NumGe(a, k) == ~a.nan /\ a.v >= k

IntMax(a, b) == IF a >= b THEN a ELSE b

IntMin(a, b) == IF a <= b THEN a ELSE b

\* ----------------------------------------------------------------- scorer
\* CATEGORY_WEIGHTS with an entry for the ioc scanner
CATEGORY_WEIGHTS_withIoc ==
  [ static        |-> [maxPoints |-> 25, criticalDeduction |-> 15, warningDeduction |-> 5,  infoDeduction |-> 0],
    obfuscation   |-> [maxPoints |-> 15, criticalDeduction |-> 10, warningDeduction |-> 10, infoDeduction |-> 3],
    hooks         |-> [maxPoints |-> 10, criticalDeduction |-> 10, warningDeduction |-> 5,  infoDeduction |-> 0],
    secrets       |-> [maxPoints |-> 5,  criticalDeduction |-> 5,  warningDeduction |-> 5,  infoDeduction |-> 0],
    binaries      |-> [maxPoints |-> 5,  criticalDeduction |-> 3,  warningDeduction |-> 3,  infoDeduction |-> 1],
    dependencies  |-> [maxPoints |-> 10, criticalDeduction |-> 10, warningDeduction |-> 5,  infoDeduction |-> 0],
    typosquatting |-> [maxPoints |-> 5,  criticalDeduction |-> 5,  warningDeduction |-> 5,  infoDeduction |-> 0],
    ioc           |-> [maxPoints |-> 5,  criticalDeduction |-> 5,  warningDeduction |-> 3,  infoDeduction |-> 1] ]

CATEGORY_WEIGHTS ==
  [ static        |-> [maxPoints |-> 25, criticalDeduction |-> 15, warningDeduction |-> 5,  infoDeduction |-> 0],
    obfuscation   |-> [maxPoints |-> 15, criticalDeduction |-> 10, warningDeduction |-> 10, infoDeduction |-> 3],
    hooks         |-> [maxPoints |-> 10, criticalDeduction |-> 10, warningDeduction |-> 5,  infoDeduction |-> 0],
    secrets       |-> [maxPoints |-> 5,  criticalDeduction |-> 5,  warningDeduction |-> 5,  infoDeduction |-> 0],
    binaries      |-> [maxPoints |-> 5,  criticalDeduction |-> 3,  warningDeduction |-> 3,  infoDeduction |-> 1],
    dependencies  |-> [maxPoints |-> 10, criticalDeduction |-> 10, warningDeduction |-> 5,  infoDeduction |-> 0],
    typosquatting |-> [maxPoints |-> 5,  criticalDeduction |-> 5,  warningDeduction |-> 5,  infoDeduction |-> 0] ]

\* CATEGORY_WEIGHTS is an object literal, so CATEGORY_WEIGHTS[name] also finds
\* the properties inherited from Object.prototype.  Such a value is truthy and
\* has no maxPoints.
ObjectPrototypeKeys ==
  {"constructor", "toString", "valueOf", "hasOwnProperty", "__proto__"}

\* CATEGORY_WEIGHTS[result.name] seen through `if (!config)`:
\* "own" an entry of the table, "inherited" a truthy value that is no
\* CategoryConfig, "undefined" nothing.
configKind(name) ==
  IF name \in DOMAIN CATEGORY_WEIGHTS THEN "own"
  ELSE IF name \in ObjectPrototypeKeys THEN "inherited"
  ELSE "undefined"

\* diminishing without the logarithm: base * count
diminishing_linear(base, count) ==
  base * count * Scale

\* base * (1 + ln(count)), 0 for no finding
diminishing(base, count) ==
  IF count = 0 THEN 0 ELSE base * (Scale + MathLog(count))

\* scoreCategory with the warning deduction added instead of subtracted
scoreCategory_warningBonus(result) ==
  LET kind == configKind(result.name) IN
  IF kind = "undefined" THEN Num(0)
  ELSE IF kind = "inherited" THEN NaN
  ELSE
    LET config == CATEGORY_WEIGHTS[result.name]
        points == config.maxPoints * Scale
                    - diminishing(config.criticalDeduction, result.critical)
                    + diminishing(config.warningDeduction, result.warning)
                    - diminishing(config.infoDeduction, result.info)
    IN Num(IntMax(0, points))

scoreCategory(result) ==
  LET kind == configKind(result.name) IN
  IF kind = "undefined" THEN Num(0)
  ELSE IF kind = "inherited"
    \* points = undefined; undefined - number = NaN; Math.max(0, NaN) = NaN
    THEN NaN
  ELSE
    LET config == CATEGORY_WEIGHTS[result.name]
        points == config.maxPoints * Scale
                    - diminishing(config.criticalDeduction, result.critical)
                    - diminishing(config.warningDeduction, result.warning)
                    - diminishing(config.infoDeduction, result.info)
    IN Num(IntMax(0, points))

\* createdDate > oneMonthAgo.  createdAt is "" (Invalid Date, every comparison
\* false), "recent" (later than the clock minus one month) or "old".
createdAfterOneMonthAgo(createdAt) == createdAt = "recent"

\* scoreGitHub without the final Math.max(0, points)
scoreGitHub_noClamp(github, hasProvenance) ==
  IF ~github.defined \/ ~github.found THEN 0
  ELSE 15 * Scale
         - (IF github.archived THEN 10 * Scale ELSE 0)
         - (IF github.stars = 0 THEN 5 * Scale ELSE 0)
         - (IF createdAfterOneMonthAgo(github.createdAt) THEN 5 * Scale ELSE 0)
         - (IF ~github.publisherMatchesOwner
              THEN IF hasProvenance THEN 0
                   ELSE IF github.stars >= 100 THEN 3 * Scale
                   ELSE 10 * Scale
              ELSE 0)

scoreGitHub(github, hasProvenance) ==
  IF ~github.defined \/ ~github.found THEN 0
  ELSE
    LET p1 == 15 * Scale - (IF github.archived THEN 10 * Scale ELSE 0)
        p2 == p1 - (IF github.stars = 0 THEN 5 * Scale ELSE 0)
        p3 == p2 - (IF createdAfterOneMonthAgo(github.createdAt) THEN 5 * Scale ELSE 0)
        p4 == p3 - (IF ~github.publisherMatchesOwner
                      THEN IF hasProvenance THEN 0
                           ELSE IF github.stars >= 100 THEN 3 * Scale
                           ELSE 10 * Scale
                      ELSE 0)
    IN IntMax(0, p4)

\* scoreDiff without the `!diff.performed` test
scoreDiff_ignoresPerformed(diff) ==
  IF ~diff.defined THEN 0
  ELSE
    LET count == diff.unexpectedFiles
        points == 10 * Scale
                    - (IF count > 0
                         THEN IntMin(8 * Scale, 3 * (Scale + MathLog(count)))
                         ELSE 0)
    IN IntMax(0, points)

scoreDiff(diff) ==
  IF ~diff.defined \/ ~diff.performed THEN 0
  ELSE
    LET count == diff.unexpectedFiles
        points == 10 * Scale
                    - (IF count > 0
                         THEN IntMin(8 * Scale, 3 * (Scale + MathLog(count)))
                         ELSE 0)
    IN IntMax(0, points)

toGrade(score) ==
  IF NumGe(score, 90 * Scale) THEN "A"
  ELSE IF NumGe(score, 80 * Scale) THEN "B"
  ELSE IF NumGe(score, 70 * Scale) THEN "C"
  ELSE IF NumGe(score, 60 * Scale) THEN "D"
  ELSE "F"

toVerdict(grade) ==
  IF grade \in {"A", "B"} THEN "CLEAN"
  ELSE IF grade = "C" THEN "CAUTION"
  ELSE IF grade \in {"D", "F"} THEN "DANGER"
  ELSE "UNKNOWN"

\* total after the loop `for (const result of scanners) total += scoreCategory(result)`
RECURSIVE sumCategories(_)
sumCategories(scanners) ==
  IF scanners = << >> THEN Num(0)
  ELSE NumAdd(sumCategories(SubSeq(scanners, 1, Len(scanners) - 1)),
              scoreCategory(scanners[Len(scanners)]))

\* meta?.trustedPublisher !== undefined
hasProvenanceOf(meta) == meta.defined /\ meta.trustedPublisher

calculateScore(scanners, github, diff, meta) ==
  LET t1 == sumCategories(scanners)
      t2 == NumAdd(t1, Num(scoreGitHub(github, hasProvenanceOf(meta))))
      total == NumAdd(t2, Num(scoreDiff(diff)))
      score == MathMax(Num(0), MathMin(Num(100 * Scale), total))
      grade == toGrade(score)
  IN [score |-> score, grade |-> grade, verdict |-> toVerdict(grade)]


\* --------------------------------------------------------------- scanners
\* The scanners in the order of the Promise.all array of scanPackage.
ScannerOrder ==
  << "static", "obfuscation", "hooks", "secrets",
     "binaries", "dependencies", "typosquatting", "ioc" >>

ScannerIds == 1..Len(ScannerOrder)

\* The severities a scanner gives its findings.
severitiesOf(name) ==
  CASE name = "static"        -> {"critical", "warning", "info"}
    [] name = "obfuscation"   -> {"critical", "warning", "info"}
    [] name = "hooks"         -> {"critical", "warning", "info"}
    [] name = "secrets"       -> {"critical", "warning"}
    [] name = "binaries"      -> {"warning"}
    [] name = "dependencies"  -> {"critical", "warning"}
    [] name = "typosquatting" -> {"critical", "warning"}
    [] name = "ioc"           -> {"warning", "info"}

\* passedOf with the warning count forgotten
passedOf_criticalOnly(name, critical, warning, info) ==
  CASE name = "ioc" -> TRUE
    [] OTHER        -> critical = 0

\* The `passed` a scanner computes from its findings.
passedOf(name, critical, warning, info) ==
  CASE name = "ioc"      -> TRUE
    [] name = "binaries" -> critical + warning + info = 0
    [] OTHER             -> critical = 0 /\ warning = 0

\* hooks and dependencies read the manifest: JSON.parse inside try, the use of
\* the parsed value outside it.
readsManifest(name) == name \in {"hooks", "dependencies"}

ScannerResult(name, critical, warning, info) ==
  [ name |-> name, passed |-> passedOf(name, critical, warning, info),
    critical |-> critical, warning |-> warning, info |-> info ]

\* the slot of a scanner that has not returned
NoResult == [name |-> "", passed |-> FALSE, critical |-> 0, warning |-> 0, info |-> 0]

findingCount(result) == result.critical + result.warning + result.info

\* ------------------------------------------------------------ data shapes
GithubUndefined ==
  [ defined |-> FALSE, found |-> FALSE, stars |-> 0, createdAt |-> "",
    archived |-> FALSE, publisherMatchesOwner |-> FALSE ]

notFound ==
  [ defined |-> TRUE, found |-> FALSE, stars |-> 0, createdAt |-> "",
    archived |-> FALSE, publisherMatchesOwner |-> FALSE ]

DiffUndefined ==
  [ defined |-> FALSE, performed |-> FALSE, unexpectedFiles |-> 0,
    expectedBuildFiles |-> 0, modifiedFiles |-> 0, error |-> FALSE ]

DiffNotPerformed ==
  [ defined |-> TRUE, performed |-> FALSE, unexpectedFiles |-> 0,
    expectedBuildFiles |-> 0, modifiedFiles |-> 0, error |-> TRUE ]

DiffPerformed(unexpected, expected, modified) ==
  [ defined |-> TRUE, performed |-> TRUE, unexpectedFiles |-> unexpected,
    expectedBuildFiles |-> expected, modifiedFiles |-> modified, error |-> FALSE ]

MetaUndefined == [defined |-> FALSE, repositoryUrl |-> "", trustedPublisher |-> FALSE]

\* repositoryUrl is "" (none), "github" (a URL parseGitHubUrl accepts) or
\* "other" (a URL it rejects).
RepositoryUrls == {"", "github", "other"}

parseGitHubUrl(repoUrl) == repoUrl = "github"

NoReport ==
  [ defined |-> FALSE, scanners |-> << >>, github |-> GithubUndefined,
    diff |-> DiffUndefined, score |-> Num(0), grade |-> "", verdict |-> "" ]

\* star counts a repository provider answers with
StarCounts == {0, 10, 100}

CreatedAts == {"recent", "old"}


\* ------------------------------------------------------------------ state
VARIABLES
  pc,          \* position in scanPackage / main
  options,     \* [noGithub, noDiff]
  meta,        \* PackageMetadata of fetchPackageMetadata
  manifest,    \* package.json of the extracted artifact: "null" (parses to null) or "object"
  tmpDir,      \* scanPackage's tmpDir is set
  diffTmpDir,  \* diffSource's tmpDir is set
  dirs,        \* scratch directories that exist
  task,        \* state of each scanner promise
  taskResult,  \* value of each fulfilled scanner promise
  scanners,    \* scanPackage's scanners
  github,      \* scanPackage's github
  diff,        \* the DiffResult of diffSource
  diffPc,      \* position in diffSource
  err,         \* the step whose error scanPackage threw
  report,      \* the report scanPackage returned
  exitCode,    \* the exitCode scanPackage returned
  processExit, \* argument of process.exit, -1 while running
  overtook,    \* some scanner finished before one listed ahead of it
  scoreIn,     \* arguments of a direct call of calculateScore
  scoreOut,    \* its return value
  iocPc,       \* position in scanIoc
  iocMap,      \* scanIoc's iocMap, in insertion order
  iocSeen,     \* per IOC key: the sightings the scanned lines held
  iocLines,    \* number of lines scanIoc has processed
  iocFindings, \* scanIoc's findings
  defangIn,    \* the IOC the extractor reports
  defangOut,   \* its defanged text
  staticPc,    \* position in scanStatic
  staticCfg,   \* scanStatic's cliTool, and the pattern followed
  staticLineNo,    \* number of lines of the file scanStatic has processed
  staticLine,      \* the line processed last
  inBlockComment,  \* scanStatic's inBlockComment
  lexBlock,        \* the line processed last ended inside a block comment
  staticFindings,  \* scanStatic's findings
  hooks,       \* a call of scanHooks: its position, manifest and result
  deps,        \* a call of scanDependencies: its position, manifest and result
  typo,        \* a call of scanTyposquatting: its position, arguments and result
  walk,        \* a directory walk of a file-collecting scanner
  srcDiff,     \* a call of diffSource followed file by file
  obf          \* a call of detectLargeStringArray on a file's content

vars ==
  << pc, options, meta, manifest, tmpDir, diffTmpDir, dirs, task, taskResult,
     scanners, github, diff, diffPc, err, report, exitCode, processExit,
     overtook, scoreIn, scoreOut,
     iocPc, iocMap, iocSeen, iocLines, iocFindings, defangIn, defangOut,
     staticPc, staticCfg, staticLineNo, staticLine, inBlockComment, lexBlock,
     staticFindings, hooks, deps, typo, walk, srcDiff, obf >>

iocVars == << iocPc, iocMap, iocSeen, iocLines, iocFindings >>

defangVars == << defangIn, defangOut >>

staticVars ==
  << staticPc, staticCfg, staticLineNo, staticLine, inBlockComment, lexBlock,
     staticFindings >>

\* the calls of single functions followed on their own
callVars == << hooks, deps, typo, walk, srcDiff, obf >>

\* the state of the scanners modelled line by line
lineVars == << iocVars, defangVars, staticVars >>

unitVars == << lineVars, callVars >>

staticIdle ==
  /\ staticPc = "idle"
  /\ staticCfg = << >>
  /\ staticLineNo = 0
  /\ staticLine = << >>
  /\ inBlockComment = FALSE
  /\ lexBlock = FALSE
  /\ staticFindings = << >>

NoCall == [pc |-> "idle"]

callIdle ==
  /\ hooks = NoCall
  /\ deps = NoCall
  /\ typo = NoCall
  /\ walk = NoCall
  /\ srcDiff = NoCall
  /\ obf = NoCall

\* no scanner is being followed line by line
lineIdle ==
  /\ iocPc = "idle"
  /\ iocMap = << >>
  /\ iocSeen = << >>
  /\ iocLines = 0
  /\ iocFindings = << >>
  /\ defangIn = << >>
  /\ defangOut = << >>
  /\ staticIdle

unitIdle == lineIdle /\ callIdle

scanVars ==
  << pc, options, meta, manifest, tmpDir, diffTmpDir, dirs, task, taskResult,
     scanners, github, diff, diffPc, err, report, exitCode, processExit, overtook >>

ScanDir == "npx-ray-"

DiffDir == "npx-ray-diff-"

NoScoreIn ==
  [scanners |-> << >>, github |-> GithubUndefined, diff |-> DiffUndefined, meta |-> MetaUndefined]

NoScoreOut ==
  [called |-> FALSE, score |-> Num(0), grade |-> "", verdict |-> ""]

ScanInit ==
  /\ pc = "fetch"
  /\ options \in [noGithub : BOOLEAN, noDiff : BOOLEAN]
  /\ meta = MetaUndefined
  /\ manifest = "object"
  /\ tmpDir = FALSE
  /\ diffTmpDir = FALSE
  /\ dirs = {}
  /\ task = [i \in ScannerIds |-> "idle"]
  /\ taskResult = [i \in ScannerIds |-> NoResult]
  /\ scanners = << >>
  /\ github = GithubUndefined
  /\ diff = DiffUndefined
  /\ diffPc = "idle"
  /\ err = "none"
  /\ report = NoReport
  /\ exitCode = -1
  /\ processExit = -1
  /\ overtook = FALSE

Init ==
  /\ ScanInit
  /\ unitIdle
  /\ scoreIn = NoScoreIn
  /\ scoreOut = NoScoreOut

\* ---------------------------------------------------- scanPackage, steps 1-2
\* step 1: fetchPackageMetadata resolves
FetchMetadata ==
  /\ pc = "fetch"
  /\ \E url \in RepositoryUrls, tp \in BOOLEAN :
       meta' = [defined |-> TRUE, repositoryUrl |-> url, trustedPublisher |-> tp]
  /\ pc' = "extract"
  /\ UNCHANGED << options, manifest, tmpDir, diffTmpDir, dirs, task, taskResult,
                  scanners, github, diff, diffPc, err, report, exitCode,
                  processExit, overtook, scoreIn, scoreOut, unitVars >>

\* FetchMetadataFails with the error swallowed instead of rethrown
FetchMetadataFails_swallowed ==
  /\ pc = "fetch"
  /\ err' = "fetch"
  /\ pc' = "extract"
  /\ UNCHANGED << options, meta, manifest, tmpDir, diffTmpDir, dirs, task,
                  taskResult, scanners, github, diff, diffPc, report, exitCode,
                  processExit, overtook, scoreIn, scoreOut, unitVars >>

\* step 1: fetchPackageMetadata throws; the error is rethrown
FetchMetadataFails ==
  /\ pc = "fetch"
  /\ err' = "fetch"
  /\ pc' = "finally"
  /\ UNCHANGED << options, meta, manifest, tmpDir, diffTmpDir, dirs, task,
                  taskResult, scanners, github, diff, diffPc, report, exitCode,
                  processExit, overtook, scoreIn, scoreOut, unitVars >>

\* step 2: mkdtemp throws, tmpDir stays undefined
MkdtempFails ==
  /\ pc = "extract"
  /\ err' = "extract"
  /\ pc' = "finally"
  /\ UNCHANGED << options, meta, manifest, tmpDir, diffTmpDir, dirs, task,
                  taskResult, scanners, github, diff, diffPc, report, exitCode,
                  processExit, overtook, scoreIn, scoreOut, unitVars >>

\* step 2: mkdtemp creates the directory, extractPackage throws
ExtractFails ==
  /\ pc = "extract"
  /\ tmpDir' = TRUE
  /\ dirs' = dirs \cup {ScanDir}
  /\ err' = "extract"
  /\ pc' = "finally"
  /\ UNCHANGED << options, meta, manifest, diffTmpDir, task, taskResult,
                  scanners, github, diff, diffPc, report, exitCode,
                  processExit, overtook, scoreIn, scoreOut, unitVars >>

\* step 2 succeeds; step 3 calls the eight scanners, which start running
Extract ==
  /\ pc = "extract"
  /\ tmpDir' = TRUE
  /\ dirs' = dirs \cup {ScanDir}
  /\ manifest' \in {"null", "object"}
  /\ task' = [i \in ScannerIds |-> "running"]
  /\ pc' = "scan"
  /\ UNCHANGED << options, meta, diffTmpDir, taskResult, scanners, github, diff,
                  diffPc, err, report, exitCode, processExit, overtook,
                  scoreIn, scoreOut, unitVars >>


\* ------------------------------------------------------ scanPackage, step 3
\* findings the scanners that have returned reported so far
RECURSIVE findingsUpTo(_, _)
findingsUpTo(results, n) ==
  IF n = 0 THEN 0 ELSE findingsUpTo(results, n - 1) + findingCount(results[n])

\* scanners that have reported findings so far
dirtyScanners(results) == {j \in ScannerIds : findingCount(results[j]) > 0}

\* The artifacts scanned: one whose manifest parses to null and whose files
\* give no finding, and those with an object manifest, at most MaxFindings
\* findings and at most MaxDirty scanners reporting them.
findingsLeft(results) ==
  IF manifest = "null" \/ Cardinality(dirtyScanners(results)) >= MaxDirty
    THEN 0
    ELSE MaxFindings - findingsUpTo(results, Len(ScannerOrder))

\* scanner i returns its ScannerResult
ScannerReturns(i) ==
  /\ task[i] = "running"
  /\ pc = "scan"
  /\ LET name == ScannerOrder[i]
         left == findingsLeft(taskResult) IN
     /\ ~(readsManifest(name) /\ manifest = "null")
     /\ \E c \in 0..left, w \in 0..left, n \in 0..left :
          /\ c + w + n <= left
          /\ c > 0 => "critical" \in severitiesOf(name)
          /\ w > 0 => "warning" \in severitiesOf(name)
          /\ n > 0 => "info" \in severitiesOf(name)
          /\ taskResult' = [taskResult EXCEPT ![i] = ScannerResult(name, c, w, n)]
  /\ task' = [task EXCEPT ![i] = "fulfilled"]
  /\ overtook' = (overtook \/ \E j \in ScannerIds : j < i /\ task[j] = "running")
  /\ UNCHANGED << pc, options, meta, manifest, tmpDir, diffTmpDir, dirs,
                  scanners, github, diff, diffPc, err, report, exitCode,
                  processExit, scoreIn, scoreOut, unitVars >>

\* hooks / dependencies: the manifest parsed to null, `pkgJson.scripts` /
\* `pkgJson.dependencies` throws a TypeError outside the try block
ScannerThrows(i) ==
  /\ task[i] = "running"
  /\ pc = "scan"
  /\ readsManifest(ScannerOrder[i])
  /\ manifest = "null"
  /\ task' = [task EXCEPT ![i] = "rejected"]
  /\ UNCHANGED << pc, options, meta, manifest, tmpDir, diffTmpDir, dirs,
                  taskResult, scanners, github, diff, diffPc, err, report,
                  exitCode, processExit, overtook, scoreIn, scoreOut,
                  unitVars >>

\* promiseAllValues with the values in reverse order
promiseAllValues_reversed(results) ==
  [i \in ScannerIds |-> results[Len(ScannerOrder) + 1 - i]]

\* the array Promise.all resolves with: the values in the order of its input
promiseAllValues(results) == [i \in ScannerIds |-> results[i]]

\* Promise.all fulfils once every scanner promise is fulfilled
AwaitScanners ==
  /\ pc = "scan"
  /\ \A i \in ScannerIds : task[i] = "fulfilled"
  /\ scanners' = promiseAllValues(taskResult)
  /\ pc' = "health"
  /\ UNCHANGED << options, meta, manifest, tmpDir, diffTmpDir, dirs, task,
                  taskResult, github, diff, diffPc, err, report, exitCode,
                  processExit, overtook, scoreIn, scoreOut, unitVars >>

\* Promise.all rejects as soon as one scanner promise is rejected; the error
\* is rethrown
AwaitScannersRejects ==
  /\ pc = "scan"
  /\ \E i \in ScannerIds : task[i] = "rejected"
  /\ err' = "scanner"
  /\ pc' = "finally"
  /\ UNCHANGED << options, meta, manifest, tmpDir, diffTmpDir, dirs, task,
                  taskResult, scanners, github, diff, diffPc, report, exitCode,
                  processExit, overtook, scoreIn, scoreOut, unitVars >>

\* ---------------------------------------------------- scanPackage, step 4
healthWanted == ~options.noGithub /\ meta.repositoryUrl # ""

SkipHealth ==
  /\ pc = "health"
  /\ ~healthWanted
  /\ pc' = "diff"
  /\ UNCHANGED << options, meta, manifest, tmpDir, diffTmpDir, dirs, task,
                  taskResult, scanners, github, diff, diffPc, err, report,
                  exitCode, processExit, overtook, scoreIn, scoreOut,
                  unitVars >>

\* checkGitHubHealth: the URL does not parse, fetch throws, the response is
\* not ok or its body is no JSON: notFound()
HealthNotFound ==
  /\ pc = "health"
  /\ healthWanted
  /\ github' = notFound
  /\ pc' = "diff"
  /\ UNCHANGED << options, meta, manifest, tmpDir, diffTmpDir, dirs, task,
                  taskResult, scanners, diff, diffPc, err, report, exitCode,
                  processExit, overtook, scoreIn, scoreOut, unitVars >>

\* checkGitHubHealth: the repository provider answers
HealthFound ==
  /\ pc = "health"
  /\ healthWanted
  /\ parseGitHubUrl(meta.repositoryUrl)
  /\ \E stars \in StarCounts, created \in CreatedAts, arch \in BOOLEAN, match \in BOOLEAN :
       github' = [ defined |-> TRUE, found |-> TRUE, stars |-> stars,
                   createdAt |-> created, archived |-> arch,
                   publisherMatchesOwner |-> match ]
  /\ pc' = "diff"
  /\ UNCHANGED << options, meta, manifest, tmpDir, diffTmpDir, dirs, task,
                  taskResult, scanners, diff, diffPc, err, report, exitCode,
                  processExit, overtook, scoreIn, scoreOut, unitVars >>

\* ---------------------------------------------------- scanPackage, step 5
\* the test of step 5 without `github?.found`
diffWanted_ignoresHealth ==
  ~options.noDiff /\ meta.repositoryUrl # ""

diffWanted ==
  ~options.noDiff /\ github.defined /\ github.found /\ meta.repositoryUrl # ""

SkipDiff ==
  /\ pc = "diff"
  /\ ~diffWanted
  /\ pc' = "score"
  /\ UNCHANGED << options, meta, manifest, tmpDir, diffTmpDir, dirs, task,
                  taskResult, scanners, github, diff, diffPc, err, report,
                  exitCode, processExit, overtook, scoreIn, scoreOut,
                  unitVars >>

\* diffSource before its tmpDir exists: the URL does not parse, fetch throws,
\* the response is not ok or has no body, or mkdtemp throws
DiffDownloadFails ==
  /\ pc = "diff"
  /\ diffWanted
  /\ diffPc = "idle"
  /\ diff' = DiffNotPerformed
  /\ diffPc' = "done"
  /\ pc' = "score"
  /\ UNCHANGED << options, meta, manifest, tmpDir, diffTmpDir, dirs, task,
                  taskResult, scanners, github, err, report, exitCode,
                  processExit, overtook, scoreIn, scoreOut, unitVars >>

\* diffSource: the tarball response is ok, mkdtemp creates the directory
DiffDownload ==
  /\ pc = "diff"
  /\ diffWanted
  /\ diffPc = "idle"
  /\ parseGitHubUrl(meta.repositoryUrl)
  /\ diffTmpDir' = TRUE
  /\ dirs' = dirs \cup {DiffDir}
  /\ diffPc' = "extract"
  /\ UNCHANGED << pc, options, meta, manifest, tmpDir, task, taskResult,
                  scanners, github, diff, err, report, exitCode, processExit,
                  overtook, scoreIn, scoreOut, unitVars >>

\* diffSource: extraction, findTarballRoot or collectFiles throws; the catch
\* block builds the result
DiffExtractFails ==
  /\ pc = "diff"
  /\ diffPc = "extract"
  /\ diff' = DiffNotPerformed
  /\ diffPc' = "finally"
  /\ UNCHANGED << pc, options, meta, manifest, tmpDir, diffTmpDir, dirs, task,
                  taskResult, scanners, github, err, report, exitCode,
                  processExit, overtook, scoreIn, scoreOut, unitVars >>

\* diffSource: both trees are walked and compared
DiffCompare ==
  /\ pc = "diff"
  /\ diffPc = "extract"
  /\ \E u \in 0..MaxUnexpected : diff' = DiffPerformed(u, 0, 0)
  /\ diffPc' = "finally"
  /\ UNCHANGED << pc, options, meta, manifest, tmpDir, diffTmpDir, dirs, task,
                  taskResult, scanners, github, err, report, exitCode,
                  processExit, overtook, scoreIn, scoreOut, unitVars >>

\* diffSource: the finally block removes tmpDir, then diffSource returns
DiffFinally ==
  /\ pc = "diff"
  /\ diffPc = "finally"
  /\ dirs' = IF diffTmpDir THEN dirs \ {DiffDir} ELSE dirs
  /\ diffPc' = "done"
  /\ pc' = "score"
  /\ UNCHANGED << options, meta, manifest, tmpDir, diffTmpDir, task, taskResult,
                  scanners, github, diff, err, report, exitCode, processExit,
                  overtook, scoreIn, scoreOut, unitVars >>

\* ------------------------------------------------ scanPackage, steps 6-8
\* exitCodeOf with grade C treated as clean
exitCodeOf_cIsClean(grade) ==
  IF grade = "A" \/ grade = "B" \/ grade = "C" THEN 0
  ELSE 2

exitCodeOf(grade) ==
  IF grade = "A" \/ grade = "B" THEN 0
  ELSE IF grade = "C" THEN 1
  ELSE 2

\* calculateScore(scanners, github, diff): no meta argument
BuildReport ==
  /\ pc = "score"
  /\ LET r == calculateScore(scanners, github, diff, MetaUndefined) IN
       /\ report' = [ defined |-> TRUE, scanners |-> scanners, github |-> github,
                      diff |-> diff, score |-> r.score, grade |-> r.grade,
                      verdict |-> r.verdict ]
       /\ exitCode' = exitCodeOf(r.grade)
  /\ pc' = "finally"
  /\ UNCHANGED << options, meta, manifest, tmpDir, diffTmpDir, dirs, task,
                  taskResult, scanners, github, diff, diffPc, err, processExit,
                  overtook, scoreIn, scoreOut, unitVars >>

\* Finally without the fs.rm call
Finally_noRm ==
  /\ pc = "finally"
  /\ pc' = "main"
  /\ UNCHANGED << options, meta, manifest, tmpDir, diffTmpDir, dirs, task,
                  taskResult, scanners, github, diff, diffPc, err, report,
                  exitCode, processExit, overtook, scoreIn, scoreOut,
                  unitVars >>

\* finally: fs.rm(tmpDir, {recursive, force}) when tmpDir is set; the call is
\* taken to remove the directory
Finally ==
  /\ pc = "finally"
  /\ dirs' = IF tmpDir THEN dirs \ {ScanDir} ELSE dirs
  /\ pc' = "main"
  /\ UNCHANGED << options, meta, manifest, tmpDir, diffTmpDir, task, taskResult,
                  scanners, github, diff, diffPc, err, report, exitCode,
                  processExit, overtook, scoreIn, scoreOut, unitVars >>

\* main: process.exit(exitCode) after printing the report, process.exit(2) in
\* the catch block
Main ==
  /\ pc = "main"
  /\ processExit' = IF err = "none" THEN exitCode ELSE 2
  /\ pc' = "exit"
  /\ UNCHANGED << options, meta, manifest, tmpDir, diffTmpDir, dirs, task,
                  taskResult, scanners, github, diff, diffPc, err, report,
                  exitCode, overtook, scoreIn, scoreOut, unitVars >>

Next ==
  \/ FetchMetadata
  \/ FetchMetadataFails
  \/ MkdtempFails
  \/ ExtractFails
  \/ Extract
  \/ \E i \in ScannerIds : ScannerReturns(i)
  \/ \E i \in ScannerIds : ScannerThrows(i)
  \/ AwaitScanners
  \/ AwaitScannersRejects
  \/ SkipHealth
  \/ HealthNotFound
  \/ HealthFound
  \/ SkipDiff
  \/ DiffDownloadFails
  \/ DiffDownload
  \/ DiffExtractFails
  \/ DiffCompare
  \/ DiffFinally
  \/ BuildReport
  \/ Finally
  \/ Main

Spec == Init /\ [][Next]_vars

\* The steps whose completion the repository provider decides: the fetch of
\* checkGitHubHealth and the fetch of diffSource settle when the provider
\* answers or the connection fails.  Neither call passes an AbortSignal and
\* scanPackage arms no timer around them.
ProviderAnswers ==
  /\ parseGitHubUrl(meta.repositoryUrl)
  /\ (HealthNotFound \/ HealthFound \/ DiffDownloadFails \/ DiffDownload)

\* every scanner of a scan, without findings
CleanScanners == [i \in ScannerIds |-> ScannerResult(ScannerOrder[i], 0, 0, 0)]

\* scanPackage after step 3 of a scan whose scanners all returned without
\* findings
TailInit ==
  /\ unitIdle
  /\ pc = "health"
  /\ options \in [noGithub : BOOLEAN, noDiff : BOOLEAN]
  /\ meta \in [defined : {TRUE}, repositoryUrl : RepositoryUrls, trustedPublisher : BOOLEAN]
  /\ manifest = "object"
  /\ tmpDir = TRUE
  /\ diffTmpDir = FALSE
  /\ dirs = {ScanDir}
  /\ task = [i \in ScannerIds |-> "fulfilled"]
  /\ taskResult = CleanScanners
  /\ scanners = promiseAllValues(CleanScanners)
  /\ github = GithubUndefined
  /\ diff = DiffUndefined
  /\ diffPc = "idle"
  /\ err = "none"
  /\ report = NoReport
  /\ exitCode = -1
  /\ processExit = -1
  /\ overtook = FALSE
  /\ scoreIn = NoScoreIn
  /\ scoreOut = NoScoreOut

\* steps 4 to 8 of scanPackage, and main
TailNext ==
  \/ SkipHealth
  \/ HealthNotFound
  \/ HealthFound
  \/ SkipDiff
  \/ DiffDownloadFails
  \/ DiffDownload
  \/ DiffExtractFails
  \/ DiffCompare
  \/ DiffFinally
  \/ BuildReport
  \/ Finally
  \/ Main

\* the steps the process takes by itself
LocalStep ==
  \/ SkipHealth
  \/ (~parseGitHubUrl(meta.repositoryUrl) /\ (HealthNotFound \/ DiffDownloadFails))
  \/ SkipDiff
  \/ DiffExtractFails
  \/ DiffCompare
  \/ DiffFinally
  \/ Finally
  \/ Main

\* the step of scanPackage from scoring to its finally block: BuildReport
ScoreStep == pc = "score" /\ pc' = "finally"

\* Steps 4 to 8 with every step of the process eventually taken; nothing
\* makes the provider answer.
LiveSpec == TailInit /\ [][TailNext]_vars /\ WF_vars(LocalStep) /\ WF_pc(ScoreStep)


\* ------------------------------------------- calculateScore called directly
\* Scanner names of the results handed to calculateScore: two categories of
\* the table, a name the table does not have, and a name that is a property
\* of Object.prototype.
ScoreNames == {"static", "binaries", "unknown", "constructor"}

ResultInputs(budget) ==
  { r \in [ name : ScoreNames, passed : BOOLEAN, critical : 0..budget,
            warning : 0..budget, info : 0..budget ] :
      /\ findingCount(r) <= budget
      /\ r.passed = (r.critical = 0 /\ r.warning = 0) }

GithubInputs ==
  { GithubUndefined, notFound } \cup
  [ defined : {TRUE}, found : {TRUE}, stars : StarCounts, createdAt : CreatedAts \cup {""},
    archived : BOOLEAN, publisherMatchesOwner : BOOLEAN ]

goodGitHub ==
  [ defined |-> TRUE, found |-> TRUE, stars |-> 100, createdAt |-> "old",
    archived |-> FALSE, publisherMatchesOwner |-> TRUE ]

DiffInputs ==
  { DiffUndefined, DiffNotPerformed } \cup
  { DiffPerformed(u, e, m) : u \in 0..MaxUnexpected, e \in 0..1, m \in 0..1 }

MetaInputs ==
  { MetaUndefined } \cup
  [ defined : {TRUE}, repositoryUrl : {"github"}, trustedPublisher : BOOLEAN ]

\* The calls made: the scanner list is empty, the clean scan, or built result
\* by result up to MaxResults results with MaxListFindings findings.  Built
\* lists go with no or a healthy repository and no diff and metadata; the
\* empty list and the clean scan go with every health, diff and metadata.
ScoreInputs ==
  [ scanners : { << >> }, github : GithubInputs, diff : DiffInputs, meta : MetaInputs ]

plainExtras(in) ==
  /\ in.github \in {GithubUndefined, goodGitHub}
  /\ in.diff = DiffUndefined
  /\ in.meta = MetaUndefined

ScoreInit ==
  /\ unitIdle
  /\ pc = "idle"
  /\ options = [noGithub |-> FALSE, noDiff |-> FALSE]
  /\ meta = MetaUndefined
  /\ manifest = "object"
  /\ tmpDir = FALSE
  /\ diffTmpDir = FALSE
  /\ dirs = {}
  /\ task = [i \in ScannerIds |-> "idle"]
  /\ taskResult = [i \in ScannerIds |-> NoResult]
  /\ scanners = << >>
  /\ github = GithubUndefined
  /\ diff = DiffUndefined
  /\ diffPc = "idle"
  /\ err = "none"
  /\ report = NoReport
  /\ exitCode = -1
  /\ processExit = -1
  /\ overtook = FALSE
  /\ scoreIn \in ScoreInputs
  /\ scoreOut = NoScoreOut

\* the caller appends one more result to the scanner list
PushResult ==
  /\ ~scoreOut.called
  /\ plainExtras(scoreIn)
  /\ Len(scoreIn.scanners) < MaxResults
  /\ LET left == MaxListFindings - findingsUpTo(scoreIn.scanners, Len(scoreIn.scanners)) IN
       \E r \in ResultInputs(left) :
         scoreIn' = [scoreIn EXCEPT !.scanners = Append(@, r)]
  /\ UNCHANGED << scanVars, scoreOut, unitVars >>

\* the caller passes the results of a scan without findings
PushCleanScan ==
  /\ ~scoreOut.called
  /\ scoreIn.scanners = << >>
  /\ scoreIn' = [scoreIn EXCEPT !.scanners = CleanScanners]
  /\ UNCHANGED << scanVars, scoreOut, unitVars >>

CallCalculateScore ==
  /\ ~scoreOut.called
  /\ LET r == calculateScore(scoreIn.scanners, scoreIn.github, scoreIn.diff, scoreIn.meta) IN
       scoreOut' = [called |-> TRUE, score |-> r.score, grade |-> r.grade, verdict |-> r.verdict]
  /\ UNCHANGED << scanVars, scoreIn, unitVars >>

ScoreNext == PushResult \/ PushCleanScan \/ CallCalculateScore

SpecScore == ScoreInit /\ [][ScoreNext]_vars


\* ------------------------------------- calculateScore on one scored category
\* Largest number of findings of one severity in the single result scored.
MaxCount == 4

CategoryResults ==
  { r \in [ name : DOMAIN CATEGORY_WEIGHTS, passed : BOOLEAN, critical : 0..MaxCount,
            warning : 0..MaxCount, info : 0..MaxCount ] :
      r.passed = (r.critical = 0 /\ r.warning = 0) }

\* the state in which no scan runs and calculateScore is about to be called
idleScan ==
  /\ pc = "idle"
  /\ options = [noGithub |-> FALSE, noDiff |-> FALSE]
  /\ meta = MetaUndefined
  /\ manifest = "object"
  /\ tmpDir = FALSE
  /\ diffTmpDir = FALSE
  /\ dirs = {}
  /\ task = [i \in ScannerIds |-> "idle"]
  /\ taskResult = [i \in ScannerIds |-> NoResult]
  /\ scanners = << >>
  /\ github = GithubUndefined
  /\ diff = DiffUndefined
  /\ diffPc = "idle"
  /\ err = "none"
  /\ report = NoReport
  /\ exitCode = -1
  /\ processExit = -1
  /\ overtook = FALSE
  /\ scoreOut = NoScoreOut

CategoryInit ==
  /\ idleScan
  /\ unitIdle
  /\ \E r \in CategoryResults :
       scoreIn = [ scanners |-> << r >>, github |-> GithubUndefined,
                   diff |-> DiffUndefined, meta |-> MetaUndefined ]

SpecCategory == CategoryInit /\ [][CallCalculateScore]_vars

\* ------------------------------------------- calculateScore on a DiffResult
\* Largest number of unexpected files of the DiffResult scored.
MaxDiffFiles == 7
\* Largest number of expected build files, and of modified files.
MaxOtherFiles == 2

DiffCases ==
  { DiffUndefined, DiffNotPerformed } \cup
  { DiffPerformed(u, e, m) : u \in 0..MaxDiffFiles, e \in 0..MaxOtherFiles,
                             m \in 0..MaxOtherFiles }

DiffInit ==
  /\ idleScan
  /\ unitIdle
  /\ scoreIn \in [ scanners : { << >>, CleanScanners }, github : { GithubUndefined, goodGitHub },
                    diff : DiffCases, meta : { MetaUndefined } ]

SpecDiff == DiffInit /\ [][CallCalculateScore]_vars

\* ------------------------------------------------- scanIoc: defanging
\* A text is a sequence of characters; a protocol name and the bracketed
\* replacements "[://]" and "[.]" are one element each.
\* Longest text after "://" in a URL the pattern matches.
MaxUrlLen == 5

\* characters URL_PATTERN accepts after "://": a letter, and the three
\* characters defangUrl looks at
UrlChars == {"a", ".", "/", ":"}

Protocols == {"http", "https", "ftp"}

Octets == {"1", "10"}

textsUpTo(chars, n) == UNION { [1..k -> chars] : k \in 1..n }

\* match[0].replace(/[.),'";]+$/, ''): of the characters trimmed only "."
\* can be part of a match
RECURSIVE trimTrailing(_)
trimTrailing(text) ==
  IF text # << >> /\ text[Len(text)] = "."
    THEN trimTrailing(SubSeq(text, 1, Len(text) - 1))
    ELSE text

\* the raw URLs the extractor reports
UrlRaws ==
  { trimTrailing(<< p, ":", "/", "/" >> \o r) :
      p \in Protocols, r \in textsUpTo(UrlChars, MaxUrlLen) }

\* the raw IPv4 literals the extractor reports
IpRaws ==
  { << a, ".", b, ".", c, ".", d >> : a \in Octets, b \in Octets, c \in Octets, d \in Octets }

\* text.replace(/\./g, '[.]')
replaceDots(text) == [i \in 1..Len(text) |-> IF text[i] = "." THEN "[.]" ELSE text[i]]

\* text.indexOf('/'), counted from 1; 0 when there is none
indexOfSlash(text) ==
  IF \E i \in 1..Len(text) : text[i] = "/"
    THEN CHOOSE i \in 1..Len(text) : text[i] = "/" /\ \A j \in 1..(i - 1) : text[j] # "/"
    ELSE 0

defangUrl(url) ==
  IF ~(Len(url) >= 4 /\ url[1] \in Protocols /\ SubSeq(url, 2, 4) = << ":", "/", "/" >>)
    THEN replaceDots(url)
    ELSE
      LET afterProto == SubSeq(url, 5, Len(url))
          defangedProto == IF url[1] = "https" THEN "hxxps"
                           ELSE IF url[1] = "http" THEN "hxxp"
                           ELSE "fxp"
          firstSlash == indexOfSlash(afterProto)
          domain == IF firstSlash # 0 THEN SubSeq(afterProto, 1, firstSlash - 1) ELSE afterProto
          pathPart == IF firstSlash # 0 THEN SubSeq(afterProto, firstSlash, Len(afterProto)) ELSE << >>
      IN << defangedProto, "[://]" >> \o replaceDots(domain) \o pathPart

defangIp(ip) == replaceDots(ip)

DefangInit ==
  /\ idleScan
  /\ scoreIn = NoScoreIn
  /\ iocPc = "idle"
  /\ iocMap = << >>
  /\ iocSeen = << >>
  /\ iocLines = 0
  /\ iocFindings = << >>
  /\ defangIn \in [type : {"url"}, raw : UrlRaws] \cup [type : {"ipv4"}, raw : IpRaws]
  /\ defangOut = << >>
  /\ staticIdle
  /\ callIdle

\* iocMap.set(key, { raw, defanged: defangUrl(raw), type: 'url', ... })
DefangUrl ==
  /\ defangOut = << >>
  /\ defangIn.type = "url"
  /\ defangOut' = defangUrl(defangIn.raw)
  /\ UNCHANGED << scanVars, scoreIn, scoreOut, iocVars, defangIn, staticVars, callVars >>

\* iocMap.set(key, { raw, defanged: defangIp(raw), type: 'ipv4', ... })
DefangIp ==
  /\ defangOut = << >>
  /\ defangIn.type = "ipv4"
  /\ defangOut' = defangIp(defangIn.raw)
  /\ UNCHANGED << scanVars, scoreIn, scoreOut, iocVars, defangIn, staticVars, callVars >>

DefangNext == DefangUrl \/ DefangIp

SpecDefang == DefangInit /\ [][DefangNext]_vars

\* ------------------------------------------------- scanIoc: the IOC map
\* Number of lines scanIoc processes.
MaxLines == 3

\* URLs the lines hold, in plaintext or in a decoded fragment: two spellings
\* of one URL that differ in case only, and a second URL.  Their domains are
\* not in IGNORED_DOMAINS.
LineUrls ==
  { << "http", ":", "/", "/", "a" >>,
    << "http", ":", "/", "/", "A" >>,
    << "https", ":", "/", "/", "a" >> }

\* IPv4 literals the lines hold
LineIps ==
  { << "1", ".", "1", ".", "1", ".", "1" >>,
    << "127", ".", "0", ".", "0", ".", "1" >> }

IGNORED_IPS ==
  { << "127", ".", "0", ".", "0", ".", "1" >>,
    << "0", ".", "0", ".", "0", ".", "0" >>,
    << "255", ".", "255", ".", "255", ".", "255" >>,
    << "192", ".", "168", ".", "0", ".", "1" >>,
    << "10", ".", "0", ".", "0", ".", "0" >>,
    << "10", ".", "0", ".", "0", ".", "1" >> }

\* four octets of which one is above 255; IPV4_PATTERN matches no such text
looksLikeVersion(raw) == \E i \in {1, 3, 5, 7} : raw[i] \in {"256", "999"}

DecodeMethods == {"hex", "base64"}

\* raw.toLowerCase()
\* the upper-case letters the modelled texts hold
UpperCase == {"A", "C", "H", "L", "R", "S", "U"}

lowerOf(c) ==
  CASE c = "A" -> "a" [] c = "C" -> "c" [] c = "H" -> "h" [] c = "L" -> "l"
    [] c = "R" -> "r" [] c = "S" -> "s" [] c = "U" -> "u" [] OTHER -> c

toLowerCase(text) == [i \in 1..Len(text) |-> lowerOf(text[i])]

IocKeys == { toLowerCase(u) : u \in LineUrls } \cup (LineIps \ IGNORED_IPS)

\* iocMap.has(key)
has(map, key) == \E i \in 1..Len(map) : map[i].key = key

\* the update without the iocMap.has(key) test
sighting_noHas(map, key, raw, type, defanged, method) ==
  Append(map, [ key |-> key, raw |-> raw, type |-> type, defanged |-> defanged,
                files |-> 1, decodedFrom |-> method ])

\* `if (!iocMap.has(key)) iocMap.set(key, {...}); entry = iocMap.get(key);
\*  if (entry.files.length < 5) entry.files.push(...)`.  files is the number
\* of locations, decodedFrom is "" in the plaintext pass.
sighting(map, key, raw, type, defanged, method) ==
  LET set == IF has(map, key) THEN map
             ELSE Append(map, [ key |-> key, raw |-> raw, type |-> type,
                                defanged |-> defanged, files |-> 0,
                                decodedFrom |-> method ])
      i == CHOOSE j \in 1..Len(set) : set[j].key = key
  IN [set EXCEPT ![i].files = IF @ < 5 THEN @ + 1 ELSE @]

\* one match of URL_PATTERN
sightUrl(map, raw, method) ==
  sighting(map, toLowerCase(raw), raw, "url", defangUrl(raw), method)

\* one match of IPV4_PATTERN
sightIp(map, raw, method) ==
  IF raw \in IGNORED_IPS \/ looksLikeVersion(raw) THEN map
  ELSE sighting(map, raw, raw, "ipv4", defangIp(raw), method)

\* what a line holds in plaintext, and in a decoded fragment: nothing or one IOC
NoIoc == [type |-> "none", raw |-> << >>, method |-> ""]

PlainIocs ==
  {NoIoc} \cup [type : {"url"}, raw : LineUrls, method : {""}]
          \cup [type : {"ipv4"}, raw : LineIps, method : {""}]

DecodedIocs ==
  {NoIoc} \cup [type : {"url"}, raw : LineUrls, method : DecodeMethods]
          \cup [type : {"ipv4"}, raw : LineIps, method : DecodeMethods]

sight(map, ioc) ==
  CASE ioc.type = "url"  -> sightUrl(map, ioc.raw, ioc.method)
    [] ioc.type = "ipv4" -> sightIp(map, ioc.raw, ioc.method)
    [] OTHER             -> map

\* the key under which an IOC of a line is filed, << >> when it is filtered out
filedKey(ioc) ==
  CASE ioc.type = "url" -> toLowerCase(ioc.raw)
    [] ioc.type = "ipv4" /\ ioc.raw \notin IGNORED_IPS -> ioc.raw
    [] OTHER -> << >>

seen(history, ioc, pass) ==
  IF filedKey(ioc) = << >> THEN history
  ELSE [history EXCEPT ![filedKey(ioc)] =
          [ plain |-> @.plain \/ pass = "plain",
            decoded |-> @.decoded \/ pass = "decoded",
            n |-> @.n + 1 ]]

IocInit ==
  /\ idleScan
  /\ scoreIn = NoScoreIn
  /\ iocPc = "scan"
  /\ iocMap = << >>
  /\ iocSeen = [k \in IocKeys |-> [plain |-> FALSE, decoded |-> FALSE, n |-> 0]]
  /\ iocLines = 0
  /\ iocFindings = << >>
  /\ defangIn = << >>
  /\ defangOut = << >>
  /\ staticIdle
  /\ callIdle

\* fs.readdir throws: the scanner returns without findings
IocReaddirFails ==
  /\ iocPc = "scan"
  /\ iocLines = 0
  /\ iocPc' = "done"
  /\ UNCHANGED << scanVars, scoreIn, scoreOut, iocMap, iocSeen, iocLines,
                  iocFindings, defangVars, staticVars, callVars >>

\* one iteration of the loop over lines: the plaintext matches first, then
\* the matches in the decoded fragments of the same line
IocLine ==
  /\ iocPc = "scan"
  /\ iocLines < MaxLines
  /\ \E plain \in PlainIocs, decoded \in DecodedIocs :
       /\ iocMap' = sight(sight(iocMap, plain), decoded)
       /\ iocSeen' = seen(seen(iocSeen, plain, "plain"), decoded, "decoded")
  /\ iocLines' = iocLines + 1
  /\ UNCHANGED << scanVars, scoreIn, scoreOut, iocPc, iocFindings, defangVars, staticVars, callVars >>

findingOf(entry) ==
  [ key |-> entry.key, type |-> entry.type, defanged |-> entry.defanged,
    severity |-> IF entry.decodedFrom # "" THEN "warning" ELSE "info",
    locations |-> entry.files, decodedFrom |-> entry.decodedFrom ]

\* the loops over urls and ips that fill findings
findingsOf(map) ==
  LET urls == SelectSeq(map, LAMBDA e : e.type = "url")
      ips == SelectSeq(map, LAMBDA e : e.type = "ipv4")
      all == urls \o ips
  IN [i \in 1..Len(all) |-> findingOf(all[i])]

\* the files are exhausted: the map is converted to findings
IocFinish ==
  /\ iocPc = "scan"
  /\ iocFindings' = findingsOf(iocMap)
  /\ iocPc' = "done"
  /\ UNCHANGED << scanVars, scoreIn, scoreOut, iocMap, iocSeen, iocLines, defangVars,
                  staticVars, callVars >>

IocNext == IocReaddirFails \/ IocLine \/ IocFinish

SpecIoc == IocInit /\ [][IocNext]_vars

\* ------------------------------------------------ scanStatic: line by line
\* Longest line of the files scanned.
MaxLineLen == 4
\* Number of lines scanStatic processes.
MaxFileLines == 2

\* Characters of a line: "e" stands for the text the followed pattern's regex
\* matches, "\"" for a quote character; a line holds no backslash.
LineChars == {"e", "/", "*", "\""}

StaticLines == { << >> } \cup textsUpTo(LineChars, MaxLineLen)

\* Entries of PATTERNS by the fields scanStatic reads: eval(, new Function(,
\* child_process and fetch(
StaticPatterns ==
  { [name |-> "eval", severity |-> "critical",
     cliExpected |-> FALSE, checkStringContext |-> TRUE],
    [name |-> "new Function", severity |-> "critical",
     cliExpected |-> TRUE, checkStringContext |-> TRUE],
    [name |-> "child_process", severity |-> "critical",
     cliExpected |-> TRUE, checkStringContext |-> FALSE],
    [name |-> "fetch", severity |-> "warning",
     cliExpected |-> TRUE, checkStringContext |-> TRUE] }

\* pattern.regex.exec(line): the index of the first match, 0 for null
matchIndex(line) ==
  IF \E i \in 1..Len(line) : line[i] = "e"
    THEN CHOOSE i \in 1..Len(line) : line[i] = "e" /\ \A j \in 1..(i - 1) : line[j] # "e"
    ELSE 0

\* the first index from `from` on where a is followed by b, 0 when there is none
indexOfPair(line, a, b, from) ==
  LET hits == {i \in from..(Len(line) - 1) : line[i] = a /\ line[i + 1] = b}
  IN IF hits = {} THEN 0 ELSE CHOOSE i \in hits : \A j \in hits : i <= j

\* line.replace(/\/\*[\s\S]*?\*\//g, '')
RECURSIVE stripInline(_)
stripInline(line) ==
  LET open == indexOfPair(line, "/", "*", 1)
      close == IF open = 0 THEN 0 ELSE indexOfPair(line, "*", "/", open + 2)
  IN IF close = 0 THEN line
     ELSE SubSeq(line, 1, open - 1) \o stripInline(SubSeq(line, close + 2, Len(line)))

\* the loop of isInsideStringOrComment from index i on; inString is
\* `inString !== null`
RECURSIVE walkQuotes(_, _, _, _)
walkQuotes(line, i, index, inString) ==
  IF i >= index THEN inString
  ELSE IF inString
    THEN walkQuotes(line, i + 1, index, line[i] # "\"")
  ELSE IF line[i] = "\""
    THEN walkQuotes(line, i + 1, index, TRUE)
  ELSE IF line[i] = "/" /\ i + 1 <= Len(line) /\ line[i + 1] = "/"
    THEN TRUE
  ELSE walkQuotes(line, i + 1, index, FALSE)

isInsideStringOrComment(line, index) == walkQuotes(line, 1, index, FALSE)

\* Where a position of a line lies by the lexical structure of the language:
\* "code", "string", "line" (after //) or "block" (inside /* */).
RECURSIVE lex(_, _, _, _)
lex(line, i, stop, state) ==
  IF i >= stop THEN state
  ELSE CASE state = "code" ->
              IF line[i] = "\"" THEN lex(line, i + 1, stop, "string")
              ELSE IF line[i] = "/" /\ i + 1 <= Len(line) /\ line[i + 1] = "/" THEN "line"
              ELSE IF line[i] = "/" /\ i + 1 <= Len(line) /\ line[i + 1] = "*"
                THEN lex(line, i + 2, stop, "block")
              ELSE lex(line, i + 1, stop, "code")
         [] state = "string" ->
              lex(line, i + 1, stop, IF line[i] = "\"" THEN "code" ELSE "string")
         [] state = "block" ->
              IF line[i] = "*" /\ i + 1 <= Len(line) /\ line[i + 1] = "/"
                THEN lex(line, i + 2, stop, "code")
                ELSE lex(line, i + 1, stop, "block")
         [] OTHER -> state

lexAt(line, startsInBlock, index) ==
  lex(line, 1, index, IF startsInBlock THEN "block" ELSE "code")

lexEndsInBlock(line, startsInBlock) ==
  lex(line, 1, Len(line) + 1, IF startsInBlock THEN "block" ELSE "code") = "block"

StaticInit ==
  /\ idleScan
  /\ scoreIn = NoScoreIn
  /\ iocPc = "idle"
  /\ iocMap = << >>
  /\ iocSeen = << >>
  /\ iocLines = 0
  /\ iocFindings = << >>
  /\ defangIn = << >>
  /\ defangOut = << >>
  /\ staticPc = "scan"
  /\ staticCfg \in [cliTool : BOOLEAN, pattern : StaticPatterns]
  /\ staticLineNo = 0
  /\ staticLine = << >>
  /\ inBlockComment = FALSE
  /\ lexBlock = FALSE
  /\ staticFindings = << >>
  /\ callIdle

\* collectSourceFiles throws: the scanner returns without findings
StaticCollectFails ==
  /\ staticPc = "scan"
  /\ staticLineNo = 0
  /\ staticPc' = "done"
  /\ UNCHANGED << scanVars, scoreIn, scoreOut, iocVars, defangVars, staticCfg,
                  staticLineNo, staticLine, inBlockComment, lexBlock, staticFindings, callVars >>

\* the finding pushed for a match at `index` of `line`
staticFinding(line, index, lineInBlockComment) ==
  LET pattern == staticCfg.pattern
      expected == staticCfg.cliTool /\ pattern.cliExpected
      inStringOrComment ==
        IF pattern.checkStringContext
          THEN lineInBlockComment \/ isInsideStringOrComment(line, index)
          ELSE FALSE
      severity == IF expected THEN "info" ELSE pattern.severity
      note == IF expected THEN "(expected for CLI tool)" ELSE ""
  IN IF inStringOrComment /\ severity # "info"
       THEN [severity |-> "info", note |-> "(in string/comment)",
             context |-> lexAt(line, lexBlock, index)]
       ELSE [severity |-> severity, note |-> note,
             context |-> lexAt(line, lexBlock, index)]

\* one iteration of the loop over the lines of a file
StaticLine ==
  /\ staticPc = "scan"
  /\ staticLineNo < MaxFileLines
  /\ \E line \in StaticLines :
       LET lineInBlockComment == inBlockComment
           closed == IF inBlockComment /\ indexOfPair(line, "*", "/", 1) # 0
                       THEN FALSE ELSE inBlockComment
           opened == IF ~lineInBlockComment /\ indexOfPair(stripInline(line), "/", "*", 1) # 0
                       THEN TRUE ELSE closed
           index == matchIndex(line)
       IN /\ inBlockComment' = opened
          /\ staticLine' = line
          /\ lexBlock' = lexEndsInBlock(line, lexBlock)
          /\ staticFindings' =
               IF index = 0 THEN staticFindings
               ELSE Append(staticFindings, staticFinding(line, index, lineInBlockComment))
  /\ staticLineNo' = staticLineNo + 1
  /\ UNCHANGED << scanVars, scoreIn, scoreOut, iocVars, defangVars, staticPc, staticCfg, callVars >>

\* the next file: `let inBlockComment = false`
StaticNextFile ==
  /\ staticPc = "scan"
  /\ staticLineNo > 0
  /\ inBlockComment' = FALSE
  /\ lexBlock' = FALSE
  /\ staticLine' = << >>
  /\ UNCHANGED << scanVars, scoreIn, scoreOut, iocVars, defangVars, staticPc, staticCfg,
                  staticLineNo, staticFindings, callVars >>

\* the files are exhausted: the result is returned
StaticFinish ==
  /\ staticPc = "scan"
  /\ staticPc' = "done"
  /\ UNCHANGED << scanVars, scoreIn, scoreOut, iocVars, defangVars, staticCfg,
                  staticLineNo, staticLine, inBlockComment, lexBlock, staticFindings, callVars >>

StaticNext == StaticCollectFails \/ StaticLine \/ StaticNextFile \/ StaticFinish

SpecStatic == StaticInit /\ [][StaticNext]_vars

\* ------------------------------------------------------------- scanHooks
\* Largest number of entries of the manifest's scripts map.
MaxScripts == 2

DANGEROUS_HOOKS ==
  {"preinstall", "install", "postinstall", "preuninstall", "uninstall", "postuninstall"}

SHELL_COMMANDS ==
  << << "c", "u", "r", "l" >>,
     << "w", "g", "e", "t" >>,
     << "b", "a", "s", "h" >>,
     << "s", "h", " ", "-", "c" >>,
     << "n", "o", "d", "e", " ", "-", "e" >>,
     << "p", "o", "w", "e", "r", "s", "h", "e", "l", "l" >>,
     << "c", "m", "d", " ", "/", "c" >> >>

\* text.includes(part)
includes(text, part) ==
  \E i \in 0..(Len(text) - Len(part)) : SubSeq(text, i + 1, i + Len(part)) = part

\* the test of the script body without lower-casing it
hasShellCommand_caseSensitive(command) ==
  \E k \in 1..Len(SHELL_COMMANDS) : includes(command, SHELL_COMMANDS[k])

\* SHELL_COMMANDS.some(cmd => command.toLowerCase().includes(cmd.toLowerCase()))
hasShellCommand(command) ==
  \E k \in 1..Len(SHELL_COMMANDS) :
    includes(toLowerCase(command), toLowerCase(SHELL_COMMANDS[k]))

\* keys of a scripts map: the hooks, prepare, and keys that are no hook
ScriptNames == DANGEROUS_HOOKS \cup {"prepare", "test", "Postinstall"}

\* a script whose value is not a string
NotAString == << "number" >>

\* script values: curl, CURL, sh -c, sh-c, tsc, the empty string, a number
ScriptCommands ==
  { << "c", "u", "r", "l" >>, << "C", "U", "R", "L" >>,
    << "s", "h", " ", "-", "c" >>, << "s", "h", "-", "c" >>,
    << "t", "s", "c" >>, << >>, NotAString }

ScriptMaps ==
  { m \in UNION { [1..k -> [name : ScriptNames, command : ScriptCommands]] : k \in 0..MaxScripts } :
      \A i, j \in 1..Len(m) : i # j => m[i].name # m[j].name }

\* package.json of the scanned directory: unreadable, the JSON text null, or
\* an object whose scripts is undefined, null, or a map
HookManifests ==
  { [kind |-> k, scripts |-> "undefined", entries |-> << >>] : k \in {"unreadable", "null"} }
  \cup { [kind |-> "object", scripts |-> k, entries |-> << >>] : k \in {"undefined", "null"} }
  \cup { [kind |-> "object", scripts |-> "object", entries |-> m] : m \in ScriptMaps }

\* the findings of the loop over Object.entries(scripts)
RECURSIVE hookFindings(_)
hookFindings(scripts) ==
  IF scripts = << >> THEN << >>
  ELSE LET name == Head(scripts).name
           command == Head(scripts).command
           rest == hookFindings(Tail(scripts))
       IN IF command = NotAString THEN rest
          ELSE IF name = "prepare"
            THEN << [severity |-> "info", name |-> name, evidence |-> command] >> \o rest
          ELSE IF name \notin DANGEROUS_HOOKS THEN rest
          ELSE IF hasShellCommand(command)
            THEN << [severity |-> "critical", name |-> name, evidence |-> command] >> \o rest
          ELSE << [severity |-> "warning", name |-> name, evidence |-> command] >> \o rest

countSeverity(findings, severity) ==
  Cardinality({i \in 1..Len(findings) : findings[i].severity = severity})

hookSummary(findings) ==
  IF findings = << >> THEN "No lifecycle hooks found"
  ELSE IF \E i \in 1..Len(findings) : findings[i].severity # "info"
    THEN "Lifecycle hooks"
    ELSE "Only benign lifecycle hooks (prepare)"

\* the value scanHooks returns for a manifest it can use
scanHooks(pkgJson) ==
  IF pkgJson.kind = "unreadable"
    THEN [passed |-> TRUE, findings |-> << >>, summary |-> "No package.json found"]
  ELSE IF pkgJson.scripts \in {"undefined", "null"}
    THEN [passed |-> TRUE, findings |-> << >>, summary |-> "No scripts defined"]
  ELSE LET findings == hookFindings(pkgJson.entries)
       IN [ passed |-> countSeverity(findings, "critical") = 0
                        /\ countSeverity(findings, "warning") = 0,
            findings |-> findings,
            summary |-> hookSummary(findings) ]

NoHookResult == [passed |-> FALSE, findings |-> << >>, summary |-> ""]

HooksInit ==
  /\ idleScan
  /\ scoreIn = NoScoreIn
  /\ lineIdle
  /\ hooks \in [pc : {"call"}, pkgJson : HookManifests, result : {NoHookResult}]
  /\ deps = NoCall
  /\ typo = NoCall
  /\ walk = NoCall
  /\ srcDiff = NoCall
  /\ obf = NoCall

\* pkgJson is null: `pkgJson.scripts` throws outside the try
ScanHooksThrows ==
  /\ hooks.pc = "call"
  /\ hooks.pkgJson.kind = "null"
  /\ hooks' = [hooks EXCEPT !.pc = "threw"]
  /\ UNCHANGED << scanVars, scoreIn, scoreOut, lineVars, deps, typo, walk, srcDiff, obf >>

ScanHooks ==
  /\ hooks.pc = "call"
  /\ hooks.pkgJson.kind # "null"
  /\ hooks' = [hooks EXCEPT !.pc = "done", !.result = scanHooks(hooks.pkgJson)]
  /\ UNCHANGED << scanVars, scoreIn, scoreOut, lineVars, deps, typo, walk, srcDiff, obf >>

HooksNext == ScanHooksThrows \/ ScanHooks

SpecHooks == HooksInit /\ [][HooksNext]_vars

\* ------------------------------------------------------ scanDependencies
\* Largest number of entries spelled out in each dependency map.
MaxDeps == 2

DEPS_WARNING == 20

DEPS_CRITICAL == 50

DepNames == {"a", "b"}

\* version strings: the three unpinned ones, a range, Latest in another
\* letter case, a git shorthand, and a value that is not a string
DepVersions == {"*", "", "latest", "^1.0.0", "Latest", "github:u/r", "number"}

\* GIT_URL_PATTERNS.some(pattern => pattern.test(version))
isGitUrl(version) == version = "github:u/r"

DepMaps ==
  { m \in UNION { [1..k -> [name : DepNames, version : DepVersions]] : k \in 0..MaxDeps } :
      \A i, j \in 1..Len(m) : i # j => m[i].name # m[j].name }

\* numbers of further dependencies, all pinned to a registry range, around
\* the two thresholds
PinnedCounts ==
  {0} \cup ((DEPS_WARNING - 2 * MaxDeps)..DEPS_WARNING)
      \cup ((DEPS_CRITICAL - 2 * MaxDeps)..DEPS_CRITICAL)

\* package.json: unreadable, the JSON text null, or an object with its
\* dependencies (the entries spelled out and `pinned` more) and its
\* optionalDependencies
DepManifests ==
  { [kind |-> k, dependencies |-> << >>, pinned |-> 0, optionalDependencies |-> << >>] :
      k \in {"unreadable", "null"} }
  \cup [ kind : {"object"}, dependencies : DepMaps, pinned : PinnedCounts,
         optionalDependencies : DepMaps ]

hasKey(map, name) == \E i \in 1..Len(map) : map[i].name = name

valueOf(map, name) == (CHOOSE i \in 1..Len(map) : map[i].name = name)

\* { ...first, ...second }: the keys of first in their order with the value
\* second gives them if it has them, then the keys only second has
spread(first, second) ==
  [ i \in 1..Len(first) |->
      IF hasKey(second, first[i].name)
        THEN second[valueOf(second, first[i].name)]
        ELSE first[i] ]
  \o SelectSeq(second, LAMBDA e : ~hasKey(first, e.name))

\* the findings of the loop over Object.entries(allDeps)
RECURSIVE depFindings(_)
depFindings(allDeps) ==
  IF allDeps = << >> THEN << >>
  ELSE LET name == Head(allDeps).name
           version == Head(allDeps).version
           rest == depFindings(Tail(allDeps))
       IN IF version = "number" THEN rest
          ELSE IF version = "*" \/ version = "" \/ version = "latest"
            THEN << [severity |-> "critical", kind |-> "unpinned",
                     name |-> name, version |-> version] >> \o rest
          ELSE IF isGitUrl(version)
            THEN << [severity |-> "warning", kind |-> "git",
                     name |-> name, version |-> version] >> \o rest
          ELSE rest

\* the finding of the dependency count
countFindings(directCount, optionalCount) ==
  LET totalCount == directCount + optionalCount
  IN IF totalCount > DEPS_CRITICAL
       THEN << [severity |-> "critical", kind |-> "count",
                name |-> "", version |-> ""] >>
     ELSE IF totalCount > DEPS_WARNING
       THEN << [severity |-> "warning", kind |-> "count",
                name |-> "", version |-> ""] >>
     ELSE << >>

NoDepResult == [passed |-> FALSE, findings |-> << >>, directCount |-> 0, optionalCount |-> 0]

\* the value scanDependencies returns for a manifest it can use
scanDependencies(pkgJson) ==
  IF pkgJson.kind = "unreadable"
    THEN [passed |-> TRUE, findings |-> << >>, directCount |-> 0, optionalCount |-> 0]
  ELSE LET directCount == Len(pkgJson.dependencies) + pkgJson.pinned
           optionalCount == Len(pkgJson.optionalDependencies)
           findings == countFindings(directCount, optionalCount)
                       \o depFindings(spread(pkgJson.dependencies, pkgJson.optionalDependencies))
       IN [ passed |-> countSeverity(findings, "critical") = 0
                        /\ countSeverity(findings, "warning") = 0,
            findings |-> findings,
            directCount |-> directCount,
            optionalCount |-> optionalCount ]

DepsInit ==
  /\ idleScan
  /\ scoreIn = NoScoreIn
  /\ lineIdle
  /\ hooks = NoCall
  /\ deps \in [pc : {"call"}, pkgJson : DepManifests, result : {NoDepResult}]
  /\ typo = NoCall
  /\ walk = NoCall
  /\ srcDiff = NoCall
  /\ obf = NoCall

\* pkgJson is null: `pkgJson.dependencies` throws outside the try
ScanDependenciesThrows ==
  /\ deps.pc = "call"
  /\ deps.pkgJson.kind = "null"
  /\ deps' = [deps EXCEPT !.pc = "threw"]
  /\ UNCHANGED << scanVars, scoreIn, scoreOut, lineVars, hooks, typo, walk, srcDiff, obf >>

ScanDependencies ==
  /\ deps.pc = "call"
  /\ deps.pkgJson.kind # "null"
  /\ deps' = [deps EXCEPT !.pc = "done", !.result = scanDependencies(deps.pkgJson)]
  /\ UNCHANGED << scanVars, scoreIn, scoreOut, lineVars, hooks, typo, walk, srcDiff, obf >>

DepsNext == ScanDependenciesThrows \/ ScanDependencies

SpecDeps == DepsInit /\ [][DepsNext]_vars

\* ----------------------------------------------------- scanTyposquatting
\* Longest package name without its scope.
MaxNameLen == 3
\* Longest list of popular package names.
MaxPopular == 2

DISTANCE_CRITICAL == 1

DISTANCE_WARNING == 2

\* name.replace(/^@[^/]+\//, '')
stripScope(name) ==
  LET slash == indexOfSlash(name)
  IN IF name # << >> /\ name[1] = "@" /\ slash > 2
       THEN SubSeq(name, slash + 1, Len(name))
       ELSE name

\* distance(a, b) of fastest-levenshtein: the Levenshtein distance
RECURSIVE distance(_, _)
distance(a, b) ==
  IF a = << >> THEN Len(b)
  ELSE IF b = << >> THEN Len(a)
  ELSE IntMin(IntMin(distance(Tail(a), b) + 1, distance(a, Tail(b)) + 1),
              distance(Tail(a), Tail(b)) + (IF Head(a) = Head(b) THEN 0 ELSE 1))

\* unscoped names, the same under the scope @s, and a name that starts with
\* "@/", which is no scope
PackageNames ==
  LET plain == textsUpTo({"a", "b", "A"}, MaxNameLen)
  IN plain \cup { << "@", "s", "/" >> \o n : n \in plain } \cup { << "@", "/", "a" >> }

\* entries of data/popular-packages.json
PopularNames ==
  { << "b" >>, << "a", "b" >>, << "b", "a" >>, << "a", "b", "b" >>, << "b", "a", "b" >>,
    << "a", "a", "a" >>, << "@", "s", "/", "a", "b" >>, << "A", "b" >> }

PopularLists == UNION { [1..k -> PopularNames] : k \in 0..MaxPopular }

\* the list in the order the loop pushed it
sortByDist_unsorted(similarPackages) == similarPackages

\* the stable insertion of sim behind the entries that are not farther
RECURSIVE insertByDist(_, _)
insertByDist(sorted, sim) ==
  IF sorted = << >> THEN << sim >>
  ELSE IF Head(sorted).dist <= sim.dist
    THEN << Head(sorted) >> \o insertByDist(Tail(sorted), sim)
    ELSE << sim >> \o sorted

RECURSIVE sortFrom(_, _)
sortFrom(sorted, rest) ==
  IF rest = << >> THEN sorted ELSE sortFrom(insertByDist(sorted, Head(rest)), Tail(rest))

\* similarPackages.sort((a, b) => a.dist - b.dist)
sortByDist(similarPackages) == sortFrom(<< >>, similarPackages)

\* the loop over popular: "exact" on the early return, else similarPackages
RECURSIVE similarTo(_, _)
similarTo(nameToCheck, popular) ==
  IF popular = << >> THEN [exact |-> FALSE, list |-> << >>]
  ELSE LET pkg == Head(popular)
           popularName == toLowerCase(stripScope(pkg))
           dist == distance(nameToCheck, popularName)
           rest == similarTo(nameToCheck, Tail(popular))
       IN IF nameToCheck = popularName THEN [exact |-> TRUE, list |-> << >>]
          ELSE IF dist <= DISTANCE_WARNING
            THEN [exact |-> rest.exact, list |-> << [name |-> pkg, dist |-> dist] >> \o rest.list]
            ELSE rest

NoTypoResult == [passed |-> FALSE, findings |-> << >>, summary |-> ""]

scanTyposquatting(packageName, popular) ==
  IF Len(popular) = 0
    THEN [passed |-> TRUE, findings |-> << >>, summary |-> "unavailable"]
  ELSE LET similar == similarTo(toLowerCase(stripScope(packageName)), popular)
           similarPackages == sortByDist(similar.list)
           findings == [ i \in 1..Len(similarPackages) |->
                           [ severity |-> IF similarPackages[i].dist <= DISTANCE_CRITICAL
                                            THEN "critical" ELSE "warning",
                             name |-> similarPackages[i].name,
                             dist |-> similarPackages[i].dist ] ]
       IN IF similar.exact
            THEN [passed |-> TRUE, findings |-> << >>, summary |-> "known popular package"]
            ELSE [ passed |-> countSeverity(findings, "critical") = 0
                              /\ countSeverity(findings, "warning") = 0,
                   findings |-> findings,
                   summary |-> IF Len(findings) = 0 THEN "No similar popular package names"
                               ELSE "Similar to" ]

TypoInit ==
  /\ idleScan
  /\ scoreIn = NoScoreIn
  /\ lineIdle
  /\ hooks = NoCall
  /\ deps = NoCall
  /\ typo \in [ pc : {"call"}, packageName : PackageNames, popular : PopularLists,
                result : {NoTypoResult} ]
  /\ walk = NoCall
  /\ srcDiff = NoCall
  /\ obf = NoCall

\* loadPopularPackages returns an empty list
ScanTyposquattingUnavailable ==
  /\ typo.pc = "call"
  /\ typo.popular = << >>
  /\ typo' = [typo EXCEPT !.pc = "done",
                          !.result = scanTyposquatting(typo.packageName, typo.popular)]
  /\ UNCHANGED << scanVars, scoreIn, scoreOut, lineVars, hooks, deps, walk, srcDiff, obf >>

ScanTyposquatting ==
  /\ typo.pc = "call"
  /\ typo.popular # << >>
  /\ typo' = [typo EXCEPT !.pc = "done",
                          !.result = scanTyposquatting(typo.packageName, typo.popular)]
  /\ UNCHANGED << scanVars, scoreIn, scoreOut, lineVars, hooks, deps, walk, srcDiff, obf >>

TypoNext == ScanTyposquattingUnavailable \/ ScanTyposquatting

SpecTypo == TypoInit /\ [][TypoNext]_vars

\* -------------------------------------------- the walks of the scanners
\* Largest number of segments of a path below the scanned directory.
MaxDepth == 2
\* Largest number of entries fs.readdir returns.
MaxEntries == 2

\* names of directory entries, each a text of tokens: node_modules,
\* xnode_modules.js, node_modules_old, a.js, a.node, test
EntryNames ==
  { << "node_modules" >>, << "x", "node_modules", ".js" >>, << "node_modules", "_old" >>,
    << "a", ".js" >>, << "a", ".node" >>, << "test" >> }

\* an entry of the recursive listing: the names from the scanned directory
\* down to the entry
WalkEntries == UNION { [1..k -> EntryNames] : k \in 1..MaxDepth }

Listings ==
  { l \in UNION { [1..k -> WalkEntries] : k \in 0..MaxEntries } :
      \A i, j \in 1..Len(l) : i # j => l[i] # l[j] }

\* extname(entry.name)
extname(name) == IF name[Len(name)] \in {".js", ".node"} THEN name[Len(name)] ELSE ""

\* entry.isFile(): the names with an extension are those of files
isFile(entry) == extname(entry[Len(entry)]) # ""

\* relative(dir, join(parentPath, entry.name)): the names joined by "/"
RECURSIVE relative(_)
relative(entry) ==
  IF Len(entry) = 1 THEN entry[1]
  ELSE entry[1] \o << "/" >> \o relative(Tail(entry))

\* relPath.split(/[\\/]/)
RECURSIVE split(_)
split(relPath) ==
  LET slash == indexOfSlash(relPath)
  IN IF slash = 0 THEN << relPath >>
     ELSE << SubSeq(relPath, 1, slash - 1) >> \o split(SubSeq(relPath, slash + 1, Len(relPath)))

TEST_DIR_SEGMENTS == { << "test" >> }

isTestFile(relPath) ==
  \E i \in 1..Len(split(relPath)) : split(relPath)[i] \in TEST_DIR_SEGMENTS

WalkingScanners == {"static", "obfuscation", "secrets", "binaries", "ioc"}

\* the scanner's test of the extension: CODE_EXTENSIONS, not
\* BINARY_EXTENSIONS, BINARY_EXTENSIONS, SCAN_EXTENSIONS
wantsExtension(scanner, ext) ==
  CASE scanner \in {"static", "obfuscation", "ioc"} -> ext = ".js"
    [] scanner = "secrets" -> ext # ".node"
    [] scanner = "binaries" -> ext = ".node"

skipsTests(scanner) == scanner \in {"static", "obfuscation"}

\* the entry passes the filters of the scanner's loop over the listing
collects(scanner, entry) ==
  /\ isFile(entry)
  /\ wantsExtension(scanner, extname(entry[Len(entry)]))
  /\ ~includes(relative(entry), << "node_modules" >>)
  /\ ~(skipsTests(scanner) /\ isTestFile(relative(entry)))

WalkInit ==
  /\ idleScan
  /\ scoreIn = NoScoreIn
  /\ lineIdle
  /\ hooks = NoCall
  /\ deps = NoCall
  /\ typo = NoCall
  /\ walk \in [pc : {"readdir"}, scanner : WalkingScanners, entries : Listings, files : {<< >>}]
  /\ srcDiff = NoCall
  /\ obf = NoCall

\* fs.readdir throws: nothing is scanned
WalkReaddirFails ==
  /\ walk.pc = "readdir"
  /\ walk.entries = << >>
  /\ walk' = [walk EXCEPT !.pc = "failed"]
  /\ UNCHANGED << scanVars, scoreIn, scoreOut, lineVars, hooks, deps, typo, srcDiff, obf >>

\* the loop over the listing
Walk ==
  /\ walk.pc = "readdir"
  /\ walk' = [walk EXCEPT !.pc = "done",
                          !.files = SelectSeq(walk.entries,
                                              LAMBDA e : collects(walk.scanner, e))]
  /\ UNCHANGED << scanVars, scoreIn, scoreOut, lineVars, hooks, deps, typo, srcDiff, obf >>

WalkNext == WalkReaddirFails \/ Walk

SpecWalk == WalkInit /\ [][WalkNext]_vars

\* ------------------------------------------------- diffSource, by file
\* Largest number of files of the artifact tree and of the repository tree.
MaxTreeFiles == 2

BUILD_DIR_PREFIXES ==
  {"dist/", "lib/", "build/", ".next/", "out/", "prebuilds/", "compiled/", "esm/", "cjs/"}

SKIP_CONTENT_COMPARE ==
  { << "package.json" >>, << ".npmignore" >>, << ".gitignore" >>, << "npm-shrinkwrap.json" >> }

\* relative paths collectFiles can return, each a text of tokens, in the
\* order of the walk: package.json, a.d.ts, a.js, b.js, dist/a.js, src/a.ts
DiffPaths ==
  << << "package.json" >>, << "a", ".d", ".ts" >>, << "a", ".js" >>, << "b", ".js" >>,
     << "dist/", "a", ".js" >>, << "src/", "a", ".ts" >> >>

\* what a tree holds at a path: nothing, a file with one of two contents, or
\* a file readFile fails on
FileStates == {"absent", "c1", "c2", "unreadable"}

filesOf(tree) == SelectSeq(DiffPaths, LAMBDA f : tree[f] # "absent")

Trees(states) ==
  { t \in [{DiffPaths[i] : i \in 1..Len(DiffPaths)} -> states \cup {"absent"}] :
      Len(filesOf(t)) <= MaxTreeFiles }

EmptyTree == [f \in {DiffPaths[i] : i \in 1..Len(DiffPaths)} |-> "absent"]

\* createHash('sha256').update(content).digest('hex')
sha256(content) == IF content = "c1" THEN "9f86d0" ELSE "60303a"

inList(list, file) == \E i \in 1..Len(list) : list[i] = file

isExpectedBuildFile(filePath, repoFiles) ==
  LET ext == filePath[Len(filePath)]
      base == SubSeq(filePath, 1, Len(filePath) - 1)
  IN \/ filePath[1] \in BUILD_DIR_PREFIXES
     \/ /\ ext \in {".js", ".mjs", ".cjs"}
        /\ \/ \E e \in {".ts", ".tsx", ".mts", ".cts"} : inList(repoFiles, base \o << e >>)
           \/ \E e \in {".ts", ".tsx"} : inList(repoFiles, << "src/" >> \o base \o << e >>)
     \/ /\ Len(filePath) >= 2
        /\ filePath[Len(filePath) - 1] = ".d"
        /\ ext \in {".ts", ".mts", ".cts"}
     \/ ext = ".map"
     \/ ext = ".node"

\* the hashing loop without the test of SKIP_CONTENT_COMPARE
modifiedOf_noSkip(npm, repo) ==
  SelectSeq(filesOf(npm),
            LAMBDA f : /\ repo[f] # "absent"
                       /\ npm[f] # "unreadable" /\ repo[f] # "unreadable"
                       /\ sha256(npm[f]) # sha256(repo[f]))

\* the hashing loop: a file of both trees outside SKIP_CONTENT_COMPARE is
\* pushed when both hashes are computed and differ
modifiedOf(npm, repo) ==
  SelectSeq(filesOf(npm),
            LAMBDA f : /\ repo[f] # "absent"
                       /\ f \notin SKIP_CONTENT_COMPARE
                       /\ npm[f] # "unreadable" /\ repo[f] # "unreadable"
                       /\ sha256(npm[f]) # sha256(repo[f]))

\* hashFile throws inside the loop's try
hashFails(npm, repo) ==
  \E i \in 1..Len(DiffPaths) :
    /\ npm[DiffPaths[i]] # "absent" /\ repo[DiffPaths[i]] # "absent"
    /\ DiffPaths[i] \notin SKIP_CONTENT_COMPARE
    /\ "unreadable" \in {npm[DiffPaths[i]], repo[DiffPaths[i]]}

NoDiffResult ==
  [ performed |-> FALSE, unexpectedFiles |-> << >>, expectedBuildFiles |-> << >>,
    modifiedFiles |-> << >>, error |-> "" ]

diffError(error) == [NoDiffResult EXCEPT !.error = error]

\* the DiffResult of the classification and hashing loops
compareTrees(npm, repo) ==
  LET repoFilesList == filesOf(repo)
      missing == SelectSeq(filesOf(npm), LAMBDA f : ~inList(repoFilesList, f))
  IN [ performed |-> TRUE,
       unexpectedFiles |-> SelectSeq(missing, LAMBDA f : ~isExpectedBuildFile(f, repoFilesList)),
       expectedBuildFiles |-> SelectSeq(missing, LAMBDA f : isExpectedBuildFile(f, repoFilesList)),
       modifiedFiles |-> modifiedOf(npm, repo),
       error |-> "" ]

SourceDiffInit ==
  /\ idleScan
  /\ scoreIn = NoScoreIn
  /\ lineIdle
  /\ hooks = NoCall
  /\ deps = NoCall
  /\ typo = NoCall
  /\ walk = NoCall
  /\ srcDiff \in [ pc : {"parse"}, repoUrl : RepositoryUrls \ {""}, npm : {EmptyTree},
                   repo : {EmptyTree}, tmpDir : {FALSE}, failed : {{}},
                   result : {NoDiffResult} ]
  /\ obf = NoCall

\* parseGitHubUrl returns null
SourceDiffParseFails ==
  /\ srcDiff.pc = "parse"
  /\ ~parseGitHubUrl(srcDiff.repoUrl)
  /\ srcDiff' = [srcDiff EXCEPT !.pc = "done", !.failed = {"parse"},
                                !.result = diffError("Could not parse GitHub URL")]
  /\ UNCHANGED << scanVars, scoreIn, scoreOut, lineVars, hooks, deps, typo, walk, obf >>

SourceDiffParse ==
  /\ srcDiff.pc = "parse"
  /\ parseGitHubUrl(srcDiff.repoUrl)
  /\ srcDiff' = [srcDiff EXCEPT !.pc = "download"]
  /\ UNCHANGED << scanVars, scoreIn, scoreOut, lineVars, hooks, deps, typo, walk, obf >>

\* fetch throws, the response is not ok or has no body, or mkdtemp throws
SourceDiffDownloadFails ==
  /\ srcDiff.pc = "download"
  /\ \E error \in {"GitHub tarball download failed", "Empty response body from GitHub",
                   "Diff failed"} :
       srcDiff' = [srcDiff EXCEPT !.pc = "finally", !.failed = {"download"},
                                  !.result = diffError(error)]
  /\ UNCHANGED << scanVars, scoreIn, scoreOut, lineVars, hooks, deps, typo, walk, obf >>

SourceDiffDownload ==
  /\ srcDiff.pc = "download"
  /\ srcDiff' = [srcDiff EXCEPT !.pc = "extract", !.tmpDir = TRUE]
  /\ UNCHANGED << scanVars, scoreIn, scoreOut, lineVars, hooks, deps, typo, walk, obf >>

\* the extractor or the stream emits an error
SourceDiffExtractFails ==
  /\ srcDiff.pc = "extract"
  /\ srcDiff' = [srcDiff EXCEPT !.pc = "finally", !.failed = {"extract"},
                                !.result = diffError("Diff failed")]
  /\ UNCHANGED << scanVars, scoreIn, scoreOut, lineVars, hooks, deps, typo, walk, obf >>

SourceDiffExtract ==
  /\ srcDiff.pc = "extract"
  /\ srcDiff' = [srcDiff EXCEPT !.pc = "walk"]
  /\ UNCHANGED << scanVars, scoreIn, scoreOut, lineVars, hooks, deps, typo, walk, obf >>

\* findTarballRoot or collectFiles throws
SourceDiffWalkFails ==
  /\ srcDiff.pc = "walk"
  /\ srcDiff' = [srcDiff EXCEPT !.pc = "finally", !.failed = {"walk"},
                                !.result = diffError("Diff failed")]
  /\ UNCHANGED << scanVars, scoreIn, scoreOut, lineVars, hooks, deps, typo, walk, obf >>

\* both trees are collected, classified and hashed
SourceDiffCompare ==
  /\ srcDiff.pc = "walk"
  /\ \E npm \in Trees({"c1", "unreadable"}), repo \in Trees({"c1", "c2", "unreadable"}) :
       srcDiff' = [srcDiff EXCEPT !.pc = "finally", !.npm = npm, !.repo = repo,
                                  !.failed = IF hashFails(npm, repo) THEN {"hash"} ELSE {},
                                  !.result = compareTrees(npm, repo)]
  /\ UNCHANGED << scanVars, scoreIn, scoreOut, lineVars, hooks, deps, typo, walk, obf >>

\* the finally block removes tmpDir, then the result is returned
SourceDiffFinally ==
  /\ srcDiff.pc = "finally"
  /\ srcDiff' = [srcDiff EXCEPT !.pc = "done", !.tmpDir = FALSE]
  /\ UNCHANGED << scanVars, scoreIn, scoreOut, lineVars, hooks, deps, typo, walk, obf >>

SourceDiffNext ==
  \/ SourceDiffParseFails
  \/ SourceDiffParse
  \/ SourceDiffDownloadFails
  \/ SourceDiffDownload
  \/ SourceDiffExtractFails
  \/ SourceDiffExtract
  \/ SourceDiffWalkFails
  \/ SourceDiffCompare
  \/ SourceDiffFinally

SpecSourceDiff == SourceDiffInit /\ [][SourceDiffNext]_vars

\* ------------------------------------------------ detectLargeStringArray
\* Largest number of bracketed arrays of a file.
MaxArrays == 2

\* `strings.length > 50`
LargeArrayOver == 50

\* content.slice(arrayEnd, arrayEnd + 500)
WindowAfter == 500

\* characters of an array element with its quotes and the comma behind it,
\* as in "ab",
ElementWidth == 5

\* characters of arr.push(arr.shift()) up to the "(" behind .shift
RotationWidth == 15

\* characters of the whole text arr.push(arr.shift())
RotationLen == 17

\* numbers of elements around the threshold, and of a long array
ArraySizes == {3, LargeArrayOver, LargeArrayOver + 1, LargeArrayOver + 2, 3 * LargeArrayOver + 1}

\* numbers of characters between a "]" and the rotation text around the end
\* of the window
GapSizes ==
  {0, WindowAfter - RotationWidth - 1, WindowAfter - RotationWidth, WindowAfter - RotationWidth + 1}

\* a piece of a file: "[", n quoted strings separated by commas, "]", gap
\* characters that are neither brackets nor quotes, and the rotation text if
\* rotation holds
ArrayPieces == [n : ArraySizes, gap : GapSizes, rotation : BOOLEAN]

Contents == UNION { [1..k -> ArrayPieces] : k \in 0..MaxArrays }

pieceLen(piece) ==
  1 + (ElementWidth * piece.n - 1) + 1 + piece.gap + (IF piece.rotation THEN RotationLen ELSE 0)

\* the index of the "[" of piece k, the first character having index 0
RECURSIVE openOf(_, _)
openOf(content, k) ==
  IF k = 1 THEN 0 ELSE openOf(content, k - 1) + pieceLen(content[k - 1])

\* the index of the "]" of piece k
closeOf(content, k) == openOf(content, k) + ElementWidth * content[k].n

\* the index the rotation text of piece k starts at
rotationOf(content, k) == closeOf(content, k) + 1 + content[k].gap

\* j when strings.length first exceeds 50: behind element 51 and its comma,
\* which is the "]" when the array has 51 elements
arrayEndOf(content, k) ==
  IF content[k].n = LargeArrayOver + 1
    THEN closeOf(content, k)
    ELSE openOf(content, k) + 1 + ElementWidth * (LargeArrayOver + 1)

\* both regular expressions match inside content.slice(from, from + 500)
hasRotation(content, from) ==
  \E r \in 1..Len(content) :
    /\ content[r].rotation
    /\ rotationOf(content, r) + 1 >= from
    /\ rotationOf(content, r) + RotationWidth <= from + WindowAfter

classifyStringArray(content, arrayEnd) ==
  IF hasRotation(content, arrayEnd) THEN "obfuscated" ELSE "data"

\* the loop over the "[" of the content from piece k on
RECURSIVE detectFrom(_, _, _)
detectFrom(content, k, found) ==
  IF k > Len(content) THEN found
  ELSE IF content[k].n > LargeArrayOver /\ found = "false"
    THEN LET class == classifyStringArray(content, arrayEndOf(content, k))
         IN IF class = "obfuscated" THEN "obfuscated"
            ELSE detectFrom(content, k + 1, class)
  ELSE detectFrom(content, k + 1, found)

detectLargeStringArray(content) == detectFrom(content, 1, "false")

\* the findings scanObfuscation pushes for the arrays of a file
arrayFindings(arrayResult) ==
  CASE arrayResult = "obfuscated" -> << "critical" >>
    [] arrayResult = "data" -> << "info" >>
    [] OTHER -> << >>

ObfInit ==
  /\ idleScan
  /\ scoreIn = NoScoreIn
  /\ lineIdle
  /\ hooks = NoCall
  /\ deps = NoCall
  /\ typo = NoCall
  /\ walk = NoCall
  /\ srcDiff = NoCall
  /\ obf \in [pc : {"read"}, content : Contents, arrayResult : {"false"}, findings : {<< >>}]

\* fs.readFile throws: the file is skipped
ObfReadFails ==
  /\ obf.pc = "read"
  /\ obf' = [obf EXCEPT !.pc = "skipped"]
  /\ UNCHANGED << scanVars, scoreIn, scoreOut, lineVars, hooks, deps, typo, walk, srcDiff >>

ObfDetectArrays ==
  /\ obf.pc = "read"
  /\ obf' = [obf EXCEPT !.pc = "done",
                        !.arrayResult = detectLargeStringArray(obf.content),
                        !.findings = arrayFindings(detectLargeStringArray(obf.content))]
  /\ UNCHANGED << scanVars, scoreIn, scoreOut, lineVars, hooks, deps, typo, walk, srcDiff >>

ObfNext == ObfReadFails \/ ObfDetectArrays

SpecObf == ObfInit /\ [][ObfNext]_vars

\* ================================================================= claims
\* the grade the threshold map gives a score of v units
thresholdGrade(v) ==
  IF v >= 90 * Scale THEN "A"
  ELSE IF v >= 80 * Scale THEN "B"
  ELSE IF v >= 70 * Scale THEN "C"
  ELSE IF v >= 60 * Scale THEN "D"
  ELSE "F"

gradeVerdict(grade) ==
  CASE grade \in {"A", "B"} -> "CLEAN"
    [] grade = "C"          -> "CAUTION"
    [] grade \in {"D", "F"} -> "DANGER"
    [] OTHER                -> "none"

\* C1: for every input of calculateScore the score is a number in [0,100],
\* the grade is the threshold map of the score and the verdict the grade map
\* of the grade.
C1_ScoreGradeVerdict ==
  scoreOut.called =>
    /\ ~scoreOut.score.nan
    /\ scoreOut.score.v >= 0
    /\ scoreOut.score.v <= 100 * Scale
    /\ scoreOut.grade = thresholdGrade(scoreOut.score.v)
    /\ scoreOut.verdict = gradeVerdict(scoreOut.grade)

\* C2: the score of every report is an integer between 0 and 100.
C2_ReportScoreInteger ==
  report.defined =>
    /\ ~report.score.nan
    /\ report.score.v % Scale = 0
    /\ report.score.v >= 0
    /\ report.score.v <= 100 * Scale

noCriticalOrWarning(result) == result.critical = 0 /\ result.warning = 0

C4_ScannerExceptionContained ==
  (pc = "exit" /\ \E i \in ScannerIds : task[i] = "rejected") =>
    /\ report.defined
    /\ Len(report.scanners) = Len(ScannerOrder)
    /\ processExit = exitCodeOf(report.grade)

healthFailed == github.defined /\ ~github.found

diffFailed == diff.defined /\ ~diff.performed

\* the total of the scanner categories of the results the scanners returned
RECURSIVE categoryTotal(_)
categoryTotal(n) ==
  IF n = 0 THEN 0 ELSE categoryTotal(n - 1) + scoreCategory(taskResult[n]).v

clamp100(v) == IntMax(0, IntMin(100 * Scale, v))

\* C5: a failed health check or source diff never fails the scan; the scan
\* returns a report in which the failed component is not-found / not-performed
\* and adds 0 points, every scanner category scores what its result scores,
\* and the exit code is that of the grade.
C5_OptionalFailuresDegrade ==
  (healthFailed \/ diffFailed) =>
    /\ err = "none"
    /\ pc \in {"finally", "main", "exit"} =>
         /\ report.defined
         /\ report.github = github
         /\ report.diff = diff
         /\ \A i \in ScannerIds :
              scoreCategory(report.scanners[i]) = scoreCategory(taskResult[i])
         /\ report.score =
              Num(clamp100(categoryTotal(Len(ScannerOrder))
                           + (IF healthFailed THEN 0 ELSE scoreGitHub(github, FALSE))
                           + (IF diffFailed THEN 0 ELSE scoreDiff(diff))))
    /\ pc = "exit" => processExit = exitCodeOf(report.grade)

\* the scan ended after the source diff failed with its scratch directory made
C5_Witness ==
  /\ pc = "exit"
  /\ diffFailed
  /\ diffTmpDir
  /\ report.defined
  /\ report.score.v > 0

\* C6: when the metadata fetch or the download/extraction fails, no scanner,
\* health check or diff is started, no report is produced and the process
\* exits with code 2.
C6_ArtifactFailureFatal ==
  err \in {"fetch", "extract"} =>
    /\ \A i \in ScannerIds : task[i] = "idle"
    /\ ~github.defined
    /\ diffPc = "idle"
    /\ ~diff.defined
    /\ ~report.defined
    /\ pc = "exit" => processExit = 2

\* the process exited after the metadata fetch failed
C6_Witness ==
  /\ pc = "exit"
  /\ err = "fetch"
  /\ processExit = 2

\* C7: the exit code is 0 exactly for grade A or B, 1 exactly for grade C,
\* 2 exactly for grade D or F or a pipeline error; there is no other code.
C7_ExitCode ==
  IF pc = "exit"
    THEN /\ processExit \in {0, 1, 2}
         /\ processExit = 0 <=> (err = "none" /\ report.grade \in {"A", "B"})
         /\ processExit = 1 <=> (err = "none" /\ report.grade = "C")
         /\ processExit = 2 <=> (err # "none" \/ report.grade \in {"D", "F"})
    ELSE processExit = -1

\* the process exited with code 0 on a report of grade B
C7_Witness ==
  /\ pc = "exit"
  /\ processExit = 0
  /\ report.grade = "B"

reportNames == [i \in 1..Len(report.scanners) |-> report.scanners[i].name]

AlphabeticalOrder ==
  << "binaries", "dependencies", "hooks", "ioc",
     "obfuscation", "secrets", "static", "typosquatting" >>

\* C9 as stated: every report lists the fixed set of scanners, each once, in
\* alphabetical order of scanner identity.
C9_AlphabeticalScannerList ==
  report.defined => reportNames = AlphabeticalOrder

\* C9 amended: every report lists the fixed set of scanners, each once, in the
\* order static, obfuscation, hooks, secrets, binaries, dependencies,
\* typosquatting, ioc, whichever scanner finished first.
C9_InvocationOrderScannerList ==
  report.defined =>
    /\ reportNames = ScannerOrder
    /\ \A i \in ScannerIds : report.scanners[i] = taskResult[i]

\* a report exists of a scan in which a scanner finished before one listed
\* ahead of it
C9_Witness ==
  /\ report.defined
  /\ overtook

\* C10: with a provenance attestation in the metadata, a publisher/owner
\* mismatch costs nothing: the report's score is the score of the same scan
\* with a matching publisher.
C10_ProvenanceCancelsMismatch ==
  ( /\ report.defined
    /\ meta.trustedPublisher
    /\ report.github.defined
    /\ report.github.found
    /\ ~report.github.publisherMatchesOwner ) =>
    report.score =
      calculateScore(report.scanners,
                     [report.github EXCEPT !.publisherMatchesOwner = TRUE],
                     report.diff, meta).score


\* points of a scan without findings: the sum of the categories' maxima
cleanTotal == 75 * Scale

\* the health contribution as the scoring rules state it
ruleHealth(g, provenance) ==
  IF ~g.defined \/ ~g.found THEN 0
  ELSE LET deductions ==
             (IF g.archived THEN 10 ELSE 0)
               + (IF g.stars = 0 THEN 5 ELSE 0)
               + (IF g.createdAt = "recent" THEN 5 ELSE 0)
               + (IF ~g.publisherMatchesOwner /\ ~provenance
                    THEN IF g.stars >= 100 THEN 3 ELSE 10
                    ELSE 0)
       IN IntMax(0, IntMin(15, 15 - deductions)) * Scale

lawDeduction(b, n) == IF n = 0 THEN 0 ELSE b * (Scale + LnTable[n])

\* C12: for every scored category and severity with base deduction b, n
\* findings deduct 0 for n = 0 and b*(1+ln n) for n >= 1, one more finding
\* deducts at most b more, and the category score is the maximum minus the
\* three deductions clamped to [0, maximum].
C12_DiminishingReturns ==
  ( /\ scoreOut.called
    /\ Len(scoreIn.scanners) = 1
    /\ scoreIn.scanners[1].name \in DOMAIN CATEGORY_WEIGHTS ) =>
    LET r == scoreIn.scanners[1]
        config == CATEGORY_WEIGHTS[r.name]
        bases == {config.criticalDeduction, config.warningDeduction, config.infoDeduction}
        counts == {r.critical, r.warning, r.info}
        deducted == lawDeduction(config.criticalDeduction, r.critical)
                      + lawDeduction(config.warningDeduction, r.warning)
                      + lawDeduction(config.infoDeduction, r.info)
    IN /\ \A b \in bases : \A n \in counts :
            /\ diminishing(b, n) = lawDeduction(b, n)
            /\ diminishing(b, n + 1) <= diminishing(b, n) + b * Scale
       /\ scoreOut.score =
            Num(IntMax(0, IntMin(config.maxPoints * Scale,
                                 config.maxPoints * Scale - deducted)))

\* a category scored with three warnings and a score left above 0
C12_Witness ==
  /\ scoreOut.called
  /\ Len(scoreIn.scanners) = 1
  /\ scoreIn.scanners[1].name = "static"
  /\ scoreIn.scanners[1].warning = 3
  /\ scoreIn.scanners[1].critical = 0
  /\ scoreOut.score.v > 0
  /\ scoreOut.score.v < 25 * Scale

\* a > b on JavaScript numbers
NumGt(a, b) == ~a.nan /\ ~b.nan /\ a.v > b.v

\* the scanner list with one more finding of a severity in result i
withFinding(results, i, severity) ==
  [results EXCEPT ![i] = [@ EXCEPT ![severity] = @ + 1, !.passed = FALSE]]

\* C13: adding one more warning or critical finding to any scanner result
\* never increases the score calculateScore returns, whatever the results,
\* health, diff and metadata.
C13_ScorerMonotone ==
  scoreOut.called =>
    \A i \in 1..Len(scoreIn.scanners) : \A severity \in {"warning", "critical"} :
      ~NumGt(calculateScore(withFinding(scoreIn.scanners, i, severity),
                            scoreIn.github, scoreIn.diff, scoreIn.meta).score,
             scoreOut.score)

\* a list was scored in which one more warning lowers the score
C13_Witness ==
  /\ scoreOut.called
  /\ \E i \in 1..Len(scoreIn.scanners) :
       /\ scoreIn.scanners[i].warning >= 1
       /\ NumGt(scoreOut.score,
                calculateScore(withFinding(scoreIn.scanners, i, "warning"),
                               scoreIn.github, scoreIn.diff, scoreIn.meta).score)

withoutIoc(results) == SelectSeq(results, LAMBDA r : r.name # "ioc")

C19_ProviderSilenceTerminates ==
  (pc \in {"health", "diff"}) ~> (pc = "exit" /\ report.defined /\ err = "none")


\* the text holds ':' '/' '/' in a row outside a bracketed replacement
hasRawSeparator(text) ==
  \E i \in 1..(Len(text) - 2) : text[i] = ":" /\ text[i + 1] = "/" /\ text[i + 2] = "/"

\* the part of a defanged URL between "[://]" and the first "/"
hostPortion(text) ==
  LET rest == SubSeq(text, 3, Len(text))
      slash == indexOfSlash(rest)
  IN IF slash = 0 THEN rest ELSE SubSeq(rest, 1, slash - 1)

\* the part of a text from the first "/" after position `from` on
pathFrom(text, from) ==
  LET rest == SubSeq(text, from, Len(text))
      slash == indexOfSlash(rest)
  IN IF slash = 0 THEN << >> ELSE SubSeq(rest, slash, Len(rest))

\* C18: the defanged text of every URL the extractor reports holds no raw
\* "://" anywhere and no dot in its host portion, and the path is left as it
\* was; every reported IP has all its dots rewritten to "[.]".
C18_DefangedIsInert ==
  defangOut # << >> =>
    IF defangIn.type = "url"
      THEN /\ ~hasRawSeparator(defangOut)
           /\ \A i \in 1..Len(hostPortion(defangOut)) : hostPortion(defangOut)[i] # "."
           /\ pathFrom(defangOut, 3) = pathFrom(defangIn.raw, 5)
      ELSE /\ \A i \in 1..Len(defangOut) : defangOut[i] # "."
           /\ Len(defangOut) = Len(defangIn.raw)


findingsFor(key) == {i \in 1..Len(iocFindings) : iocFindings[i].key = key}

\* C16: after any sequence of lines, every distinct URL (compared without
\* case) and every distinct IPv4 literal that passed the filters yields
\* exactly one finding, however often and in whichever pass it was sighted,
\* with at most five locations; what was never sighted yields none.
C16_OneFindingPerIoc ==
  iocPc = "done" =>
    \A k \in IocKeys :
      IF iocSeen[k].n > 0
        THEN /\ Cardinality(findingsFor(k)) = 1
             /\ \A i \in findingsFor(k) :
                  /\ iocFindings[i].locations <= 5
                  /\ iocFindings[i].locations = IntMin(5, iocSeen[k].n)
        ELSE findingsFor(k) = {}

\* the scanner finished after six sightings of one IOC, in both passes
C16_Witness ==
  /\ iocPc = "done"
  /\ \E k \in IocKeys :
       /\ iocSeen[k].n >= 6
       /\ iocSeen[k].plain
       /\ iocSeen[k].decoded
       /\ \E i \in findingsFor(k) : iocFindings[i].locations = 5

\* C17: in whatever order the sightings of one URL or IP occur, its finding
\* has severity warning only if the IOC was never sighted in plaintext; once
\* sighted in plaintext, before or after a decoded sighting, it has severity
\* info.
C17_PlaintextBeatsDecoded ==
  iocPc = "done" =>
    \A i \in 1..Len(iocFindings) :
      /\ iocFindings[i].severity = "warning" => ~iocSeen[iocFindings[i].key].plain
      /\ iocSeen[iocFindings[i].key].plain => iocFindings[i].severity = "info"


\* C20: without a bin field and for a pattern flagged check-string-context, a
\* finding is downgraded to info with the "(in string/comment)" note exactly
\* when its match lies inside a string literal, after "//" on its line, or
\* inside a block comment whose state is carried across lines; a match in
\* real code keeps the pattern's severity.
C20_DowngradeExactlyInStringOrComment ==
  (staticPc # "idle" /\ ~staticCfg.cliTool /\ staticCfg.pattern.checkStringContext) =>
    \A i \in 1..Len(staticFindings) :
      IF staticFindings[i].context # "code"
        THEN /\ staticFindings[i].severity = "info"
             /\ staticFindings[i].note = "(in string/comment)"
        ELSE /\ staticFindings[i].severity = staticCfg.pattern.severity
             /\ staticFindings[i].note = ""


\* C21: when the manifest declares a bin field, every finding of a
\* cli-expected pattern is info with the "(expected for CLI tool)" suffix,
\* and every match of eval( or new Function( outside strings and comments is
\* still reported as critical.
C21_CliKeepsEvalAndFunctionCritical ==
  (staticPc # "idle" /\ staticCfg.cliTool) =>
    \A i \in 1..Len(staticFindings) :
      /\ staticCfg.pattern.cliExpected =>
           /\ staticFindings[i].severity = "info"
           /\ staticFindings[i].note = "(expected for CLI tool)"
      /\ (staticCfg.pattern.name \in {"eval", "new Function"}
            /\ staticFindings[i].context = "code") =>
           staticFindings[i].severity = "critical"


\* the findings scanHooks returned for the script called name
findingsNamed(name) ==
  {i \in 1..Len(hooks.result.findings) : hooks.result.findings[i].name = name}

\* C22: per script entry with a string body, scanHooks emits a critical
\* finding for a dangerous hook whose body holds a shell command in any
\* letter case, a warning for a dangerous hook without one, an info finding
\* for prepare, and nothing for any other key; an unreadable manifest or a
\* missing scripts map gives an empty result that passed.
C22_HookFindings ==
  hooks.pc = "done" =>
    IF hooks.pkgJson.kind = "unreadable" \/ hooks.pkgJson.scripts \in {"undefined", "null"}
      THEN hooks.result.findings = << >> /\ hooks.result.passed
      ELSE LET scripts == hooks.pkgJson.entries
               strings == {i \in 1..Len(scripts) : scripts[i].command # NotAString}
               lower(c) == toLowerCase(c)
               shell(c) == \E k \in 1..Len(SHELL_COMMANDS) : includes(lower(c), SHELL_COMMANDS[k])
               expected(i) ==
                 IF scripts[i].name = "prepare" THEN "info"
                 ELSE IF scripts[i].name \notin DANGEROUS_HOOKS THEN "none"
                 ELSE IF shell(scripts[i].command) THEN "critical"
                 ELSE "warning"
           IN /\ \A i \in strings :
                   IF expected(i) = "none" THEN findingsNamed(scripts[i].name) = {}
                   ELSE \E f \in findingsNamed(scripts[i].name) :
                          /\ findingsNamed(scripts[i].name) = {f}
                          /\ hooks.result.findings[f].severity = expected(i)
              /\ \A f \in 1..Len(hooks.result.findings) :
                   \E i \in strings : scripts[i].name = hooks.result.findings[f].name

\* a dangerous hook running CURL in upper case has been scanned next to a
\* prepare script or a script that is no hook
C22_Witness ==
  /\ hooks.pc = "done"
  /\ hooks.pkgJson.kind = "object"
  /\ \E i, j \in 1..Len(hooks.pkgJson.entries) :
       /\ hooks.pkgJson.entries[i].name \in DANGEROUS_HOOKS
       /\ hooks.pkgJson.entries[i].command = << "C", "U", "R", "L" >>
       /\ hooks.pkgJson.entries[j].name \in {"prepare", "test"}
  /\ \E f \in 1..Len(hooks.result.findings) : hooks.result.findings[f].severity = "critical"
  /\ ~hooks.result.passed


\* the entries of a dependency map whose version is '*', '' or 'latest'
unpinnedIn(map) == {i \in 1..Len(map) : map[i].version \in {"*", "", "latest"}}

\* the unpinned findings scanDependencies returned for name with version
unpinnedFindings(name, version) ==
  {f \in 1..Len(deps.result.findings) :
     /\ deps.result.findings[f].kind = "unpinned"
     /\ deps.result.findings[f].name = name
     /\ deps.result.findings[f].version = version}

\* C23: scanDependencies emits one critical unpinned finding for every entry
\* of the direct map and for every entry of the optional map whose version is
\* '*', '' or 'latest', also when a name occurs in both maps with different
\* versions; the count finding follows size(direct) + size(optional).
C23_UnpinnedInBothMaps ==
  (deps.pc = "done" /\ deps.pkgJson.kind = "object") =>
    LET direct == deps.pkgJson.dependencies
        optional == deps.pkgJson.optionalDependencies
        total == Len(direct) + deps.pkgJson.pinned + Len(optional)
        unpinned == {f \in 1..Len(deps.result.findings) :
                       deps.result.findings[f].kind = "unpinned"}
        counts == {f \in 1..Len(deps.result.findings) :
                     deps.result.findings[f].kind = "count"}
    IN /\ \A i \in unpinnedIn(direct) :
            unpinnedFindings(direct[i].name, direct[i].version) # {}
       /\ \A i \in unpinnedIn(optional) :
            unpinnedFindings(optional[i].name, optional[i].version) # {}
       /\ Cardinality(unpinned) = Cardinality(unpinnedIn(direct)) + Cardinality(unpinnedIn(optional))
       /\ \A f \in unpinned : deps.result.findings[f].severity = "critical"
       /\ IF total > DEPS_CRITICAL
            THEN \E f \in counts : counts = {f} /\ deps.result.findings[f].severity = "critical"
          ELSE IF total > DEPS_WARNING
            THEN \E f \in counts : counts = {f} /\ deps.result.findings[f].severity = "warning"
          ELSE counts = {}


\* the name compared: without its scope, in lower case
compared(name) == toLowerCase(stripScope(name))

\* the entries of the popular list within two edits of the input
nearEntries ==
  {i \in 1..Len(typo.popular) :
     distance(compared(typo.packageName), compared(typo.popular[i])) <= 2}

\* C24: scanTyposquatting passes without findings when the input equals any
\* list entry, wherever it is in the list; otherwise it emits exactly one
\* finding per list entry at edit distance <= 2, critical at distance 1 and
\* warning at distance 2, sorted ascending by distance; with an empty list it
\* passes with the "unavailable" summary.
C24_TyposquattingFindings ==
  typo.pc = "done" =>
    LET findings == typo.result.findings
        exact == \E i \in 1..Len(typo.popular) :
                   compared(typo.popular[i]) = compared(typo.packageName)
    IN IF typo.popular = << >>
         THEN /\ typo.result.passed
              /\ findings = << >>
              /\ typo.result.summary = "unavailable"
       ELSE IF exact
         THEN typo.result.passed /\ findings = << >>
       ELSE /\ Len(findings) = Cardinality(nearEntries)
            /\ \A i \in nearEntries :
                 Cardinality({f \in 1..Len(findings) : findings[f].name = typo.popular[i]})
                   = Cardinality({j \in nearEntries : typo.popular[j] = typo.popular[i]})
            /\ \A f \in 1..Len(findings) :
                 /\ findings[f].dist
                      = distance(compared(typo.packageName), compared(findings[f].name))
                 /\ findings[f].dist = 1 => findings[f].severity = "critical"
                 /\ findings[f].dist = 2 => findings[f].severity = "warning"
                 /\ findings[f].dist \in {1, 2}
            /\ \A f, g \in 1..Len(findings) : f < g => findings[f].dist <= findings[g].dist

\* a scoped upper-case input was compared with a list that holds an entry two
\* edits away ahead of an entry one edit away
C24_Witness ==
  /\ typo.pc = "done"
  /\ Len(typo.popular) = 2
  /\ typo.packageName[1] = "@"
  /\ \E k \in 1..Len(typo.packageName) : typo.packageName[k] = "A"
  /\ distance(compared(typo.packageName), compared(typo.popular[1])) = 2
  /\ distance(compared(typo.packageName), compared(typo.popular[2])) = 1
  /\ Len(typo.result.findings) = 2
  /\ typo.result.findings[1].severity = "critical"


\* C25: every file-walking scanner skips a file that passes its extension
\* and test-path filters if and only if one of the path's segments is exactly
\* node_modules; a name that merely contains that text is still scanned.
C25_SkipsOnlyNodeModulesSegment ==
  walk.pc = "done" =>
    \A i \in 1..Len(walk.entries) :
      LET entry == walk.entries[i]
          scanned == \E f \in 1..Len(walk.files) : walk.files[f] = entry
          eligible == /\ isFile(entry)
                      /\ wantsExtension(walk.scanner, extname(entry[Len(entry)]))
                      /\ ~(skipsTests(walk.scanner) /\ \E k \in 1..Len(entry) : entry[k] = << "test" >>)
      IN eligible => (scanned <=> ~\E k \in 1..Len(entry) : entry[k] = << "node_modules" >>)


\* the paths of a list
pathsOf(list) == {list[i] : i \in 1..Len(list)}

\* the paths a tree holds
present(tree) == {f \in DOMAIN tree : tree[f] # "absent"}

\* C26: in a DiffResult with performed=true, unexpected-files and
\* expected-build-files are disjoint and together are the artifact files
\* absent from the repository tree; modified-files are the paths of both
\* trees outside the always-differ set whose SHA-256 hashes differ; no path
\* is in more than one of the three lists.
C26_DiffListsPartition ==
  (srcDiff.pc \in {"finally", "done"} /\ srcDiff.result.performed) =>
    LET unexpected == pathsOf(srcDiff.result.unexpectedFiles)
        expected == pathsOf(srcDiff.result.expectedBuildFiles)
        modified == pathsOf(srcDiff.result.modifiedFiles)
        A == present(srcDiff.npm)
        R == present(srcDiff.repo)
        hashed(tree, f) == tree[f] \in {"c1", "c2"}
    IN /\ unexpected \cap expected = {}
       /\ unexpected \cup expected = A \ R
       /\ modified = {f \in (A \cap R) \ SKIP_CONTENT_COMPARE :
                        /\ hashed(srcDiff.npm, f) /\ hashed(srcDiff.repo, f)
                        /\ srcDiff.npm[f] # srcDiff.repo[f]}
       /\ modified \cap (unexpected \cup expected) = {}
       /\ Len(srcDiff.result.unexpectedFiles) = Cardinality(unexpected)
       /\ Len(srcDiff.result.expectedBuildFiles) = Cardinality(expected)
       /\ Len(srcDiff.result.modifiedFiles) = Cardinality(modified)

\* a diff was performed on an artifact with a file the repository lacks and a
\* package.json whose content differs from the repository's
C26_Witness ==
  /\ srcDiff.pc = "done"
  /\ srcDiff.result.performed
  /\ srcDiff.npm[<< "package.json" >>] = "c1"
  /\ srcDiff.repo[<< "package.json" >>] = "c2"
  /\ srcDiff.result.unexpectedFiles # << >>
  /\ srcDiff.result.modifiedFiles = << >>

\* C27: diffSource never raises; a failure at any step (URL parse, download,
\* extract, tree walk, or hashing a file of either tree) gives a DiffResult
\* with performed=false, an error string and empty file lists.
C27_AnyFailureNotPerformed ==
  srcDiff.pc = "done" =>
    (srcDiff.failed # {} =>
       /\ ~srcDiff.result.performed
       /\ srcDiff.result.error # ""
       /\ srcDiff.result.unexpectedFiles = << >>
       /\ srcDiff.result.expectedBuildFiles = << >>
       /\ srcDiff.result.modifiedFiles = << >>)


\* piece k of the content is an array of at least 50 strings with .push( and
\* .shift( within the 500 characters behind its "]"
rotatedArray(k) ==
  /\ obf.content[k].n >= 50
  /\ \E r \in 1..Len(obf.content) :
       /\ obf.content[r].rotation
       /\ rotationOf(obf.content, r) > closeOf(obf.content, k)
       /\ rotationOf(obf.content, r) + RotationWidth - 1 <= closeOf(obf.content, k) + 500

\* C28: a file with a bracketed array of at least 50 quoted strings that has
\* .push( and .shift( within the 500 characters behind its "]" gets a
\* critical string-array finding, whatever the array's length and whatever
\* large string arrays precede it in the file.
C28_RotatedArrayIsCritical ==
  obf.pc = "done" =>
    ((\E k \in 1..Len(obf.content) : rotatedArray(k)) => obf.findings = << "critical" >>)


\* the place of a position of scanPackage in the order of its steps
stepRank(p) ==
  CASE p = "fetch" -> 1 [] p = "extract" -> 2 [] p = "scan" -> 3 [] p = "health" -> 4
    [] p = "diff" -> 5 [] p = "score" -> 6 [] p = "finally" -> 7 [] p = "main" -> 8
    [] p = "exit" -> 9 [] OTHER -> 0

healthFound == github.defined /\ github.found

\* C29: the steps of a scan happen in the order metadata fetch, extraction,
\* join of all scanners, optional health check, optional diff, scoring,
\* cleanup; the health check runs only once every scanner has returned, the
\* diff is attempted only after a health check with found=true, and a report
\* built without such a health check has no diff.
C29_StepOrder ==
  [][ /\ stepRank(pc') >= stepRank(pc)
      /\ github' # github =>
           (pc = "health" /\ \A i \in ScannerIds : task[i] = "fulfilled")
      /\ (diffPc' # diffPc \/ diff' # diff) => (pc = "diff" /\ healthFound)
      /\ (report'.defined /\ ~report.defined) =>
           /\ pc = "score"
           /\ ~healthFound => ~report'.diff.defined
      /\ dirs' # dirs /\ ScanDir \notin dirs' /\ ScanDir \in dirs => pc = "finally" ]_vars

\* a report was built with the diff not switched off and the health check
\* answering not-found: it has no diff
C29_Witness ==
  /\ report.defined
  /\ ~options.noDiff
  /\ ~options.noGithub
  /\ github.defined
  /\ ~github.found
  /\ ~report.diff.defined
  /\ pc = "exit"

\* no scanner result of the report has a finding
noFindings ==
  \A i \in 1..Len(report.scanners) :
    report.scanners[i].critical + report.scanners[i].warning + report.scanners[i].info = 0

\* C30: no scan ends with exit code 0 unless the health check ran and
\* returned found=true; without it the total is at most 75, and a package
\* without any finding gets 75 / C / CAUTION and exit code 1.
C30_NoCleanExitWithoutHealth ==
  /\ (pc = "exit" /\ processExit = 0) => healthFound
  /\ (report.defined /\ ~healthFound) =>
       /\ ~report.score.nan
       /\ report.score.v <= 75 * Scale
       /\ exitCode # 0
       /\ noFindings =>
            /\ report.score = Num(75 * Scale)
            /\ report.grade = "C"
            /\ report.verdict = "CAUTION"
            /\ exitCode = 1

\* a scan without health check of a package without findings exited with 1
C30_Witness ==
  /\ pc = "exit"
  /\ report.defined
  /\ ~github.defined
  /\ noFindings
  /\ report.score = Num(75 * Scale)
  /\ processExit = 1

====
